---------------------------- MODULE Spec2Model ----------------------------
(***************************************************************************)
(* Black & White Filesystem (BWFS): the block bitmap, the worst-fit        *)
(* allocator, the inode store, single-block directories and the mount      *)
(* operation table, as a state machine over an image directory.            *)
(*                                                                         *)
(* Byte quantities (file sizes, offsets) are unsigned 32-bit in the code.   *)
(* They are kept here as records [k, r] standing for k * 125000 + r, with   *)
(* 0 <= r < 125000, and wrap at 2^32 = 34359 * 125000 + 92296.              *)
(***************************************************************************)
EXTENDS Integers, Sequences, FiniteSets, TLC

VARIABLES
    abm,      \* allocator harness: the bitmap handed to bwfs_alloc_blocks
    acall,    \* harness: the last call made to a core function, its arguments and result
    disk,     \* the image directory: block index -> block content
    g_sb,     \* mounted instance: superblock read by op_init
    g_bm,     \* mounted instance: in-memory bitmap
    alive,    \* FALSE once the mount process has been aborted
    last,     \* the last mount operation, its return code and resize result
    nops,     \* number of operations the mount has served
    mk,       \* the formatter process: its position, locals and exit status
    ck,       \* the consistency checker: the counters and exit status of its run
    fw,       \* the checker's directory walk: its position, context and frames
    io,       \* harness: a block file written and read back through the block codec
    th        \* the bridge's request threads: position and locals of each handler

vars == <<abm, acall, disk, g_sb, g_bm, alive, last, nops, mk, ck, fw, io, th>>

(***************************************************************************)
(* Program constants                                                       *)
(***************************************************************************)
UINT32_MAX == -1                      \* 2^32 - 1 as an unsigned word: the failure sentinel
BWFS_BLOCK_SIZE_BYTES == 125000
BWFS_DIRECT_BLOCKS == 10
BWFS_SUPERBLOCK_BLK == 0
BWFS_BITMAP_BLK == 1
BWFS_MAGIC == 1111906131              \* 0x42465753
DirEntrySize == 260                   \* sizeof(bwfs_dir_entry_t)
WrapK == 34359                        \* 2^32 = WrapK * 125000 + WrapR
WrapR == 92296

(***************************************************************************)
(* Bounds of the model                                                     *)
(***************************************************************************)
AllocBits == 9        \* allocator harness: bitmaps of 1..AllocBits blocks
TotalBlocks == 7      \* mount model: total_blocks of the formatted image
MaxFormatBlocks == 12   \* formatter: total_blocks from 2 to MaxFormatBlocks
MaxOps == 6           \* mount model: operations served in one run

(***************************************************************************)
(* Bitmap (include/bitmap.h).  map is kept per bit; bit i of the code      *)
(* lives in byte i/8 under mask 1 << (i%8), so the buffer of               *)
(* ceil(total_blocks/8) bytes holds MapBits(total_blocks) bits.            *)
(***************************************************************************)
MapBytes(n) == (n + 7) \div 8
MapBits(n) == 8 * MapBytes(n)

Pow2(e) == CASE e = 0 -> 1 [] e = 1 -> 2 [] e = 2 -> 4 [] e = 3 -> 8
             [] e = 4 -> 16 [] e = 5 -> 32 [] e = 6 -> 64 [] e = 7 -> 128

\* bwfs_bm_test: the masked byte, i.e. 0 or the mask itself (not 0/1)
bwfs_bm_test(bm, blk) == IF bm.map[blk] THEN Pow2(blk % 8) ELSE 0

\* bwfs_bm_set, for a bit inside the buffer
bwfs_bm_set(bm, blk, val) == [bm EXCEPT !.map[blk] = (val # 0)]

(***************************************************************************)
(* Allocator (src/core/allocation.c)                                       *)
(***************************************************************************)
RECURSIVE ScanFrom(_, _, _, _)
\* the for loop of find_worst_fit from index i on; st holds the four locals
ScanFrom(bm, min_len, i, st) ==
    IF i >= bm.total_blocks THEN st
    ELSE IF bwfs_bm_test(bm, i) = 0
         THEN ScanFrom(bm, min_len, i + 1,
                       [st EXCEPT !.cur_start = IF st.cur_len = 0 THEN i ELSE @,
                                  !.cur_len = @ + 1])
         ELSE ScanFrom(bm, min_len, i + 1,
                       IF st.cur_len >= min_len /\ st.cur_len > st.best_len
                       THEN [st EXCEPT !.best_start = st.cur_start,
                                       !.best_len = st.cur_len,
                                       !.cur_len = 0]
                       ELSE [st EXCEPT !.cur_len = 0])

RECURSIVE ScanTieLast(_, _, _, _)
\* a scan that lets a later run of equal length replace the best one
ScanTieLast(bm, min_len, i, st) ==
    IF i >= bm.total_blocks THEN st
    ELSE IF bwfs_bm_test(bm, i) = 0
         THEN ScanTieLast(bm, min_len, i + 1,
                       [st EXCEPT !.cur_start = IF st.cur_len = 0 THEN i ELSE @,
                                  !.cur_len = @ + 1])
         ELSE ScanTieLast(bm, min_len, i + 1,
                       IF st.cur_len >= min_len /\ st.cur_len >= st.best_len
                          /\ st.cur_len > 0
                       THEN [st EXCEPT !.best_start = st.cur_start,
                                       !.best_len = st.cur_len,
                                       !.cur_len = 0]
                       ELSE [st EXCEPT !.cur_len = 0])

ScanInit == [best_start |-> UINT32_MAX, best_len |-> 0, cur_start |-> 0, cur_len |-> 0]

\* the check of the region at the end of the bitmap, with ties going to it
TieLastEnd(st, min_len) ==
    IF st.cur_len >= min_len /\ st.cur_len >= st.best_len /\ st.cur_len > 0
    THEN [start |-> st.cur_start, len |-> st.cur_len]
    ELSE [start |-> st.best_start, len |-> st.best_len]

\* a find_worst_fit in which ties go to the last run, not the first
find_worst_fit_tie_last(bm, min_len) ==
    TieLastEnd(ScanTieLast(bm, min_len, 0, ScanInit), min_len)

\* the check of the region at the end of the bitmap: out_start and out_len
ScanEnd(st, min_len) ==
    IF st.cur_len >= min_len /\ st.cur_len > st.best_len
    THEN [start |-> st.cur_start, len |-> st.cur_len]
    ELSE [start |-> st.best_start, len |-> st.best_len]

\* a find_worst_fit that does not enforce the minimum length
find_worst_fit_no_min(bm, min_len) == ScanEnd(ScanFrom(bm, 0, 0, ScanInit), 0)

\* find_worst_fit: out_start and out_len
find_worst_fit(bm, min_len) == ScanEnd(ScanFrom(bm, min_len, 0, ScanInit), min_len)

RECURSIVE SetRange(_, _, _, _)
\* for (i = 0; i < count; ++i) bwfs_bm_set(bm, start + i, val), bits inside the buffer
SetRange(bm, start, count, val) ==
    IF count = 0 THEN bm
    ELSE SetRange(IF start \in DOMAIN bm.map THEN bwfs_bm_set(bm, start, val) ELSE bm,
                  start + 1, count - 1, val)

\* bwfs_alloc_blocks after find_worst_fit returned f
AllocAt(bm, count, f) ==
    IF f.start = UINT32_MAX
    THEN [ret |-> UINT32_MAX, bm |-> bm]
    ELSE [ret |-> f.start, bm |-> SetRange(bm, f.start, count, 1)]

\* bwfs_alloc_blocks: the returned index and the bitmap afterwards
bwfs_alloc_blocks(bm, count) == AllocAt(bm, count, find_worst_fit(bm, count))

\* bwfs_free_blocks writes outside the map buffer (heap overflow) for these arguments
FreeOutOfBuffer(bm, start, count) == count > 0 /\ start + count > MapBits(bm.total_blocks)

\* a release that stops one block short of the region
bwfs_free_blocks_short(bm, start, count) ==
    SetRange(bm, start, IF count > 0 THEN count - 1 ELSE 0, 0)

\* bwfs_free_blocks, as far as it stays inside the buffer
bwfs_free_blocks(bm, start, count) == SetRange(bm, start, count, 0)

(***************************************************************************)
(* Allocator harness: one call of bwfs_alloc_blocks on an arbitrary bitmap *)
(***************************************************************************)
\* a bitmap of n blocks whose used blocks are those of set s (padding bits clear)
BitmapOf(n, s) == [total_blocks |-> n, map |-> [i \in 0..(MapBits(n) - 1) |-> i \in s]]

\* the bitmap of scenario S2: free runs [3..5] and [10..14] among 16 blocks
S2Bitmap == BitmapOf(16, (0..15) \ ((3..5) \cup (10..14)))

HarnessBitmaps ==
    UNION {{BitmapOf(n, s) : s \in SUBSET (0..(n - 1))} : n \in 1..AllocBits}
        \cup {S2Bitmap}

NoCall == [op |-> "none", count |-> 0, ret |-> 0, pre |-> BitmapOf(1, {})]

\* the checker has not run
NoCheck == [done |-> FALSE, exit |-> 0, repair |-> FALSE, errors_found |-> 0,
            errors_fixed |-> 0, warnings |-> 0, repaired |-> 0, loaded |-> FALSE]

\* the directory walk of a checker that is not running
NoWalk == [pc |-> "off", ctx |-> <<>>, stack |-> <<>>, capped |-> FALSE]
\* the request threads of a bridge that serves no concurrent requests
NoThreads == <<>>
\* a conversion that takes the least significant bit first
bits_to_pixels_lsb(byte_val) ==
    [bit_pos \in 0..7 |-> IF (byte_val \div Pow2(bit_pos)) % 2 = 1 THEN 255 ELSE 0]

\* no block file is exercised through the codec
NoBlockFile == [pc |-> "off", codec |-> "none", buf |-> <<>>, file |-> <<>>, len |-> 0,
                out |-> <<>>, rc |-> 0]
\* no formatter is run in this behaviour
NoFormat == [pc |-> "off", total_blocks |-> 0, bm |-> BitmapOf(1, {}), root_blk |-> 0,
             i |-> 0, exit |-> "none"]

\* the state after the formatter's steps (mkfs main, before the block files are refilled)
FormattedBitmap == BitmapOf(TotalBlocks, {0, 1, 2})

AllocInit ==
    /\ abm \in HarnessBitmaps
    /\ acall = NoCall
    /\ mk = NoFormat /\ ck = NoCheck /\ fw = NoWalk /\ io = NoBlockFile /\ th = NoThreads

\* a caller invokes bwfs_alloc_blocks(abm, count)
AllocCall ==
    /\ acall.op = "none"
    /\ \E count \in 0..(abm.total_blocks + 1) :
          /\ abm' = bwfs_alloc_blocks(abm, count).bm
          /\ acall' = [op |-> "alloc", count |-> count,
                       ret |-> bwfs_alloc_blocks(abm, count).ret, pre |-> abm]
    /\ UNCHANGED <<disk, g_sb, g_bm, alive, last, nops, mk, ck, fw, io, th>>

\* the caller gives the region back: bwfs_free_blocks(abm, start, count)
FreeCall ==
    /\ acall.op = "alloc"
    /\ acall.ret # UINT32_MAX
    /\ abm' = bwfs_free_blocks(abm, acall.ret, acall.count)
    /\ acall' = [acall EXCEPT !.op = "free"]
    /\ UNCHANGED <<disk, g_sb, g_bm, alive, last, nops, mk, ck, fw, io, th>>

(***************************************************************************)
(* Unsigned 32-bit byte quantities as [k, r] = k * 125000 + r              *)
(***************************************************************************)
Sz(k, r) == [k |-> k, r |-> r]
SzZero == Sz(0, 0)

RECURSIVE U32(_, _)
\* the unsigned 32-bit word congruent to k * 125000 + r (r may be out of range)
U32(k, r) ==
    LET k1 == k + (r \div BWFS_BLOCK_SIZE_BYTES)
        r1 == r % BWFS_BLOCK_SIZE_BYTES
    IN  IF k1 < 0 THEN U32(k1 + WrapK, r1 + WrapR)
        ELSE IF k1 > WrapK \/ (k1 = WrapK /\ r1 >= WrapR) THEN U32(k1 - WrapK, r1 - WrapR)
        ELSE Sz(k1, r1)

SzLess(a, b) == a.k < b.k \/ (a.k = b.k /\ a.r < b.r)
\* the low byte and the low 16 bits of a word (125000 = 72 mod 256 = 59464 mod 65536)
Low8(sz) == (sz.k * 72 + sz.r) % 256
Low16(sz) == (sz.k * 59464 + sz.r) % 65536

(***************************************************************************)
(* Names and paths the operations are called with                          *)
(***************************************************************************)
Names == {"a", "b"}
\* the names a directory entry may hold: those of Paths and three more
EntryNames == Names \cup {"c", "d", "e"}
NameCode(n) == CASE n = "a" -> 97 [] n = "b" -> 98 [] n = "c" -> 99 [] n = "d" -> 100
                 [] n = "e" -> 101
Paths == {<<n>> : n \in Names} \cup {<<"a", "b">>}
\* slots of a directory block the model keeps; the others (up to 480) stay empty
TrackedSlots == Cardinality(Names) + 2
Junk == "?"           \* a name that is none of EntryNames

(***************************************************************************)
(* Block content.  The first 128 bytes of a block are kept as the inode    *)
(* record they are when read by bwfs_read_inode; the same bytes are slot 0 *)
(* of the entry array when the block is read by load_entries (ino = bytes  *)
(* 0..3, name = bytes 4.., which are the size and following fields).       *)
(* ents are slots 1.. of the entry array; tail is the block's last byte.   *)
(***************************************************************************)
NoBlocks == [i \in 1..BWFS_DIRECT_BLOCKS |-> 0]
EmptyEntry == [ino |-> 0, name |-> ""]
NoEntries == [i \in 1..(TrackedSlots - 1) |-> EmptyEntry]

ZeroBlock == [ino |-> 0, size |-> SzZero, block_count |-> 0, flags |-> 0,
              blocks |-> NoBlocks, ents |-> NoEntries, tail |-> 0]

\* util_write_block of a bwfs_inode_t: 128 bytes, zero padded
InodeBlock(inode) == [ZeroBlock EXCEPT !.ino = inode.ino, !.size = inode.size,
                                      !.block_count = inode.block_count,
                                      !.flags = inode.flags, !.blocks = inode.blocks]

\* util_read_block into a bwfs_inode_t
InodeOf(c) == [ino |-> c.ino, size |-> c.size, block_count |-> c.block_count,
               flags |-> c.flags, blocks |-> c.blocks]

\* the NUL-terminated name held by the bytes that follow a slot-0 ino
NameOfSize(sz) ==
    IF Low8(sz) = 0 THEN ""
    ELSE IF \E n \in EntryNames : Low16(sz) = NameCode(n)
         THEN CHOOSE n \in EntryNames : Low16(sz) = NameCode(n)
         ELSE Junk

\* slot i (0-based) of the entry array of block content c
Slot(c, i) == IF i = 0 THEN [ino |-> c.ino, name |-> NameOfSize(c.size)] ELSE c.ents[i]

\* entries[i].ino = ino; strncpy(entries[i].name, name, 255)
SetSlot(c, i, ino, name) ==
    IF i = 0
    THEN [c EXCEPT !.ino = ino, !.size = Sz(0, NameCode(name)), !.block_count = 0,
                   !.flags = 0, !.blocks = NoBlocks]
    ELSE [c EXCEPT !.ents[i] = [ino |-> ino, name |-> name]]

\* entries[i].ino = 0; entries[i].name[0] = '\0'
ClearSlot(c, i) ==
    IF i = 0
    THEN [c EXCEPT !.ino = 0, !.size = U32(c.size.k, c.size.r - Low8(c.size))]
    ELSE [c EXCEPT !.ents[i] = EmptyEntry]

RECURSIVE BitsValue(_, _)
\* the integer whose binary digits are map[i..], least significant first
BitsValue(map, i) ==
    IF i \notin DOMAIN map THEN 0
    ELSE (IF map[i] THEN 1 ELSE 0) + 2 * BitsValue(map, i + 1)

\* util_write_block of the map bytes: they fall in the first word for <= 32 blocks
BitmapBlock(bm) == [ZeroBlock EXCEPT !.ino = BitsValue(bm.map, 0)]

\* util_write_block of a bwfs_superblock_t (magic, total_blocks, root_inode, block_size)
SuperBlock(sb) == [ZeroBlock EXCEPT !.ino = BWFS_MAGIC, !.size = Sz(0, sb.total_blocks),
                                    !.block_count = sb.root_inode, !.flags = 64]

\* util_write_block: creates the block file when it does not exist
WriteBlock(d, b, c) == IF b \in DOMAIN d THEN [d EXCEPT ![b] = c] ELSE (b :> c) @@ d
\* util_read_block succeeds iff the block file exists
CanRead(d, b) == b \in DOMAIN d

bwfs_write_inode(inode, d) == WriteBlock(d, inode.ino, InodeBlock(inode))
\* a write of the bitmap that does not reach block 1
bwfs_write_bitmap_skipped(bm, d) == d
bwfs_write_bitmap(bm, d) == WriteBlock(d, BWFS_BITMAP_BLK, BitmapBlock(bm))

(***************************************************************************)
(* Return codes                                                            *)
(***************************************************************************)
BWFS_OK == "OK"
BWFS_ERR_IO == "ERR_IO"
BWFS_ERR_FULL == "ERR_FULL"
NotFoundRc == "UINT32_MAX"     \* bwfs_dir_remove: return UINT32_MAX as int
IsDir(inode) == inode.flags % 2 = 1           \* flags & BWFS_INODE_DIR

(***************************************************************************)
(* Inode store (src/core/inode.c)                                          *)
(***************************************************************************)
\* the record bwfs_create_inode builds for block ino_blk
NewInode(ino_blk, is_dir) ==
    [ino |-> ino_blk, size |-> SzZero, block_count |-> 0,
     flags |-> IF is_dir THEN 1 ELSE 0, blocks |-> NoBlocks]

\* bwfs_create_inode after bwfs_alloc_blocks returned a
CreateAt(a, bm, is_dir, d) ==
    IF a.ret = UINT32_MAX
    THEN [ret |-> UINT32_MAX, bm |-> bm, disk |-> d]
    ELSE [ret |-> a.ret, bm |-> a.bm,
          disk |-> bwfs_write_bitmap(a.bm, bwfs_write_inode(NewInode(a.ret, is_dir), d))]

\* a creation that persists the inode and leaves block 1 as it was
bwfs_create_inode_unsaved(bm, is_dir, d) ==
    [ret |-> bwfs_alloc_blocks(bm, 1).ret, bm |-> bwfs_alloc_blocks(bm, 1).bm,
     disk |-> IF bwfs_alloc_blocks(bm, 1).ret = UINT32_MAX THEN d
              ELSE bwfs_write_inode(NewInode(bwfs_alloc_blocks(bm, 1).ret, is_dir), d)]

\* bwfs_create_inode: [ret, bm, disk]
bwfs_create_inode(bm, is_dir, d) == CreateAt(bwfs_alloc_blocks(bm, 1), bm, is_dir, d)

\* zero_blocks(inode, from, to)
zero_blocks(inode, from, to) ==
    [inode EXCEPT !.blocks = [i \in 1..BWFS_DIRECT_BLOCKS |->
                                 IF from <= i - 1 /\ i - 1 < to THEN 0 ELSE @[i]]]

RECURSIVE GrowLoop(_, _, _, _, _)
RECURSIVE GrowStep(_, _, _, _, _, _)
\* one iteration of the expansion loop after bwfs_alloc_blocks returned a; when the
\* allocation failed, the roll-back
GrowStep(bm, inode, cur_blocks, add, i, a) ==
    IF a.ret = UINT32_MAX
    THEN [ok |-> FALSE,
          bm |-> bwfs_free_blocks(bm, inode.blocks[cur_blocks + 1], i),
          inode |-> inode,
          oob |-> FreeOutOfBuffer(bm, inode.blocks[cur_blocks + 1], i)]
    ELSE GrowLoop(a.bm, [inode EXCEPT !.blocks[cur_blocks + i + 1] = a.ret],
                  cur_blocks, add, i + 1)

\* the expansion loop of bwfs_inode_resize from iteration i on: [ok, bm, inode, oob]
GrowLoop(bm, inode, cur_blocks, add, i) ==
    IF i >= add THEN [ok |-> TRUE, bm |-> bm, inode |-> inode, oob |-> FALSE]
    ELSE GrowStep(bm, inode, cur_blocks, add, i, bwfs_alloc_blocks(bm, 1))

RECURSIVE ShrinkLoop(_, _, _, _, _)
\* for (i = req_blocks; i < cur_blocks; ++i) bwfs_free_blocks(bm, inode->blocks[i], 1):
\* [ok, bm, inode, oob]
ShrinkLoop(bm, inode, i, cur_blocks, oob) ==
    IF i >= cur_blocks
    THEN [ok |-> TRUE, bm |-> bm, inode |-> inode, oob |-> oob]
    ELSE ShrinkLoop(bwfs_free_blocks(bm, inode.blocks[i + 1], 1), inode, i + 1,
                    cur_blocks, oob \/ FreeOutOfBuffer(bm, inode.blocks[i + 1], 1))

\* req_blocks = (new_size + BWFS_BLOCK_SIZE_BYTES - 1) / BWFS_BLOCK_SIZE_BYTES, in 32 bits
ReqBlocks(new_size) == U32(new_size.k, new_size.r + BWFS_BLOCK_SIZE_BYTES - 1).k

\* zero_blocks(inode, req_blocks, cur_blocks) once the loop of frees left sh
Shrunk(sh, req_blocks, cur_blocks) ==
    [sh EXCEPT !.inode = zero_blocks(sh.inode, req_blocks, cur_blocks)]

\* the expansion or contraction branch of bwfs_inode_resize: [ok, bm, inode, oob]
ResizeBlocks(bm, inode, cur_blocks, req_blocks) ==
    IF req_blocks > cur_blocks
    THEN GrowLoop(bm, inode, cur_blocks, req_blocks - cur_blocks, 0)
    ELSE IF req_blocks < cur_blocks
    THEN Shrunk(ShrinkLoop(bm, inode, req_blocks, cur_blocks, FALSE),
                req_blocks, cur_blocks)
    ELSE [ok |-> TRUE, bm |-> bm, inode |-> inode, oob |-> FALSE]

\* the caller's inode once block_count and size are assigned
Resized(inode, req_blocks, new_size) ==
    [inode EXCEPT !.block_count = req_blocks, !.size = new_size]

\* the end of bwfs_inode_resize after its branch left g: return Full after the
\* roll-back, or persist bitmap and inode
ResizeEnd(g, req_blocks, new_size, d) ==
    IF ~g.ok
    THEN [rc |-> BWFS_ERR_FULL, bm |-> g.bm, inode |-> g.inode,
          disk |-> bwfs_write_bitmap(g.bm, d), oob |-> g.oob]
    ELSE [rc |-> BWFS_OK, bm |-> g.bm, inode |-> Resized(g.inode, req_blocks, new_size),
          disk |-> bwfs_write_inode(Resized(g.inode, req_blocks, new_size),
                                    bwfs_write_bitmap(g.bm, d)),
          oob |-> g.oob]

\* bwfs_inode_resize: [rc, bm, inode, disk, oob]
bwfs_inode_resize(bm, inode, new_size, d) ==
    IF ReqBlocks(new_size) > BWFS_DIRECT_BLOCKS
    THEN [rc |-> BWFS_ERR_FULL, bm |-> bm, inode |-> inode, disk |-> d, oob |-> FALSE]
    ELSE ResizeEnd(ResizeBlocks(bm, inode, inode.block_count, ReqBlocks(new_size)),
                   ReqBlocks(new_size), new_size, d)

(***************************************************************************)
(* Directories (src/core/dir.c).  load_entries reads 125000 bytes into a   *)
(* buffer of 480 * 260 = 124800 bytes: every load overruns the heap buffer *)
(* (ub).  The build either carries on as if the buffer were large enough   *)
(* or aborts at the free() that follows.                                   *)
(***************************************************************************)
SlotIds == 0..(TrackedSlots - 1)
\* the least index of S, or -1 when the loop finds none
FirstOf(S) == IF S = {} THEN -1 ELSE CHOOSE i \in S : \A j \in S : i <= j
\* the first occupied slot holding name, or -1
MatchIdx(c, name) ==
    FirstOf({i \in SlotIds : Slot(c, i).ino # 0 /\ Slot(c, i).name = name})
\* the first slot with ino == 0, or -1
FreeIdx(c) == FirstOf({i \in SlotIds : Slot(c, i).ino = 0})

\* load_entries is reached and reads the block
Loads(dir_inode, d) == dir_inode.block_count # 0 /\ CanRead(d, dir_inode.blocks[1])

\* the search loop of bwfs_dir_lookup ended at slot i of the block c
LookupAt(c, i) == IF i = -1 THEN UINT32_MAX ELSE Slot(c, i).ino

\* bwfs_dir_lookup
bwfs_dir_lookup(dir_inode, d, name) ==
    IF dir_inode.block_count = 0 THEN UINT32_MAX
    ELSE IF ~CanRead(d, dir_inode.blocks[1]) THEN UINT32_MAX
    ELSE LookupAt(d[dir_inode.blocks[1]], MatchIdx(d[dir_inode.blocks[1]], name))

\* dir_inode->size += / -= sizeof(bwfs_dir_entry_t)
SizePlus(sz, n) == U32(sz.k, sz.r + n)

\* what bwfs_dir_add hands back: adisk is the image at the free() that follows
\* the first load_entries
DirAddRet(rc, bm, d, ub, adisk) ==
    [rc |-> rc, bm |-> bm, disk |-> d, ub |-> ub, adisk |-> adisk]

\* step 5 of bwfs_dir_add: store_entries left the image d2, then bwfs_write_inode
DirAddStore(bm, di2, d2) == DirAddRet(BWFS_OK, bm, bwfs_write_inode(di2, d2), TRUE, d2)

\* steps 3 and 4 of bwfs_dir_add on the loaded block c: the duplicate and free-slot
\* search, then the new entry
DirAddEntry(bm, di, d, c, match, free_idx, name, child_ino) ==
    IF match # -1 \/ free_idx = -1
    THEN DirAddRet(BWFS_ERR_FULL, bm, d, TRUE, d)
    ELSE DirAddStore(bm, [di EXCEPT !.size = SizePlus(di.size, DirEntrySize)],
                     WriteBlock(d, di.blocks[1], SetSlot(c, free_idx, child_ino, name)))

\* step 2 of bwfs_dir_add: load_entries
DirAddLoad(bm, di, d, name, child_ino) ==
    IF ~CanRead(d, di.blocks[1])
    THEN DirAddRet(BWFS_ERR_IO, bm, d, FALSE, d)
    ELSE DirAddEntry(bm, di, d, d[di.blocks[1]], MatchIdx(d[di.blocks[1]], name),
                     FreeIdx(d[di.blocks[1]]), name, child_ino)

\* step 1 of bwfs_dir_add once the first block is assigned to the directory:
\* persist bitmap and inode
DirAddPersist(bm, di, d, name, child_ino) ==
    DirAddLoad(bm, di, bwfs_write_inode(di, bwfs_write_bitmap(bm, d)), name, child_ino)

\* step 1 of bwfs_dir_add after bwfs_alloc_blocks returned a
DirAddFirstBlock(a, bm, dir_inode, d, name, child_ino) ==
    IF a.ret = UINT32_MAX
    THEN DirAddRet(BWFS_ERR_FULL, bm, d, FALSE, d)
    ELSE DirAddPersist(a.bm,
                       [dir_inode EXCEPT !.blocks[1] = a.ret, !.block_count = 1,
                                         !.size = SzZero],
                       WriteBlock(d, a.ret, ZeroBlock), name, child_ino)

\* bwfs_dir_add: [rc, bm, disk, ub, adisk]; bm_null stands for a NULL bitmap argument
bwfs_dir_add(bm, bm_null, dir_inode, d, name, child_ino) ==
    IF dir_inode.block_count # 0 THEN DirAddLoad(bm, dir_inode, d, name, child_ino)
    ELSE IF bm_null THEN DirAddRet(BWFS_ERR_FULL, bm, d, FALSE, d)
    ELSE DirAddFirstBlock(bwfs_alloc_blocks(bm, 1), bm, dir_inode, d, name, child_ino)

\* what bwfs_dir_remove hands back: inode is *dir_inode afterwards
DirRemoveRet(rc, inode, d, ub, adisk) ==
    [rc |-> rc, inode |-> inode, disk |-> d, ub |-> ub, adisk |-> adisk]

\* the end of bwfs_dir_remove: store_entries left the image d2, then bwfs_write_inode
DirRemoveStore(di2, d2) == DirRemoveRet(BWFS_OK, di2, bwfs_write_inode(di2, d2), TRUE, d2)

\* the search loop of bwfs_dir_remove ended at slot i
DirRemoveAt(dir_inode, d, i) ==
    IF i = -1
    THEN DirRemoveRet(NotFoundRc, dir_inode, d, TRUE, d)
    ELSE DirRemoveStore([dir_inode EXCEPT !.size = SizePlus(dir_inode.size, -DirEntrySize)],
                        WriteBlock(d, dir_inode.blocks[1],
                                   ClearSlot(d[dir_inode.blocks[1]], i)))

\* bwfs_dir_remove: [rc, inode, disk, ub, adisk]
bwfs_dir_remove(dir_inode, d, name) ==
    IF dir_inode.block_count = 0
    THEN DirRemoveRet(NotFoundRc, dir_inode, d, FALSE, d)
    ELSE IF ~CanRead(d, dir_inode.blocks[1])
    THEN DirRemoveRet(BWFS_ERR_IO, dir_inode, d, FALSE, d)
    ELSE DirRemoveAt(dir_inode, d, MatchIdx(d[dir_inode.blocks[1]], name))

(***************************************************************************)
(* Path resolution (src/fuse/bwfs.c).  A path is its sequence of tokens.   *)
(***************************************************************************)
RECURSIVE ResolveFrom(_, _, _, _)
RECURSIVE ResolveStep(_, _, _, _, _)
\* one iteration of the while loop after bwfs_dir_lookup returned ino
ResolveStep(cur, toks, d, ub, ino) ==
    IF ino = UINT32_MAX THEN [rc |-> "ENOENT", inode |-> cur, ub |-> ub]
    ELSE IF ~CanRead(d, ino) THEN [rc |-> "ENOENT", inode |-> cur, ub |-> ub]
    ELSE ResolveFrom(InodeOf(d[ino]), Tail(toks), d, ub)

\* the while loop of bwfs_resolve: [rc, inode, ub]
ResolveFrom(cur, toks, d, ub) ==
    IF toks = <<>> THEN [rc |-> BWFS_OK, inode |-> cur, ub |-> ub]
    ELSE IF ~IsDir(cur) THEN [rc |-> "ENOENT", inode |-> cur, ub |-> ub]
    ELSE ResolveStep(cur, toks, d, ub \/ Loads(cur, d),
                     bwfs_dir_lookup(cur, d, Head(toks)))

\* bwfs_resolve
bwfs_resolve(path, d) ==
    IF ~CanRead(d, g_sb.root_inode)
    THEN [rc |-> "ENOENT", inode |-> InodeOf(ZeroBlock), ub |-> FALSE]
    ELSE ResolveFrom(InodeOf(d[g_sb.root_inode]), path, d, FALSE)

\* split_path: the parent path and the last component
ParentOf(path) == SubSeq(path, 1, Len(path) - 1)
NameOf(path) == path[Len(path)]

(***************************************************************************)
(* Mount operations (src/fuse/bwfs.c).  Each returns                       *)
(*   rc     the code handed back to the caller                             *)
(*   bm     g_bm afterwards           disk   the image afterwards          *)
(*   ub     load_entries was reached  adisk  the image at the first free() *)
(*                                           after the first load_entries  *)
(*   oob    bwfs_free_blocks wrote outside the map buffer                  *)
(*   rrc, new_size, rino   the bwfs_inode_resize call made, if any, its    *)
(*                         argument and the caller's inode afterwards      *)
(***************************************************************************)
NoInode == InodeOf(ZeroBlock)
Out(rc, bm, d, ub, adisk, oob) ==
    [rc |-> rc, bm |-> bm, disk |-> d, ub |-> ub, adisk |-> adisk, oob |-> oob,
     rrc |-> "none", new_size |-> SzZero, rino |-> NoInode]

\* the code an operation returns for the rc of its last bwfs_dir_* call
RcOf(rc) == IF rc = BWFS_OK THEN "OK" ELSE "EIO"

\* the end of op_create and op_mkdir: bwfs_dir_add returned a
CreateEnd(r, a) ==
    Out(RcOf(a.rc), a.bm, a.disk, r.ub \/ a.ub, IF r.ub THEN disk ELSE a.adisk, FALSE)

\* op_create and op_mkdir after bwfs_create_inode returned c
CreateAdd(r, name, c) ==
    IF c.ret = UINT32_MAX
    THEN Out("ENOSPC", g_bm, disk, r.ub, disk, FALSE)
    ELSE CreateEnd(r, bwfs_dir_add(c.bm, FALSE, r.inode, c.disk, name, c.ret))

\* the body shared by op_create and op_mkdir after the parent is resolved
CreateIn(r, name, is_dir) == CreateAdd(r, name, bwfs_create_inode(g_bm, is_dir, disk))

\* op_mkdir after bwfs_resolve returned r
MkdirIn(r, name) ==
    IF r.rc # BWFS_OK THEN Out("ENOENT", g_bm, disk, r.ub, disk, FALSE)
    ELSE IF ~IsDir(r.inode) THEN Out("ENOTDIR", g_bm, disk, r.ub, disk, FALSE)
    ELSE CreateIn(r, name, TRUE)

op_mkdir(path) == MkdirIn(bwfs_resolve(ParentOf(path), disk), NameOf(path))

\* op_create after bwfs_resolve returned r
CreateFile(r, name) ==
    IF r.rc # BWFS_OK THEN Out("ENOENT", g_bm, disk, r.ub, disk, FALSE)
    ELSE CreateIn(r, name, FALSE)

op_create(path) == CreateFile(bwfs_resolve(ParentOf(path), disk), NameOf(path))

\* the end of op_rmdir and op_unlink: both frees left bm2 and bwfs_dir_remove
\* returned rm
RemoveEnd(bm2, oob, rm) == Out(RcOf(rm.rc), bm2, rm.disk, TRUE, disk, oob)

\* op_rmdir and op_unlink once both bwfs_free_blocks calls left bm2: persist the
\* bitmap and remove the entry from the parent
RemoveEntry(r, name, bm2, oob) ==
    RemoveEnd(bm2, oob, bwfs_dir_remove(r.inode, bwfs_write_bitmap(bm2, disk), name))

\* op_rmdir: the first bwfs_free_blocks left bm1, then the inode block is freed
RmdirFree(r, name, ino, dir, bm1) ==
    RemoveEntry(r, name, bwfs_free_blocks(bm1, ino, 1),
                FreeOutOfBuffer(g_bm, dir.blocks[1], dir.block_count)
                   \/ FreeOutOfBuffer(bm1, ino, 1))

\* op_rmdir on the directory inode read from block ino
RmdirDir(r, name, ino, ub, dir) ==
    IF ~IsDir(dir) THEN Out("ENOTDIR", g_bm, disk, ub, disk, FALSE)
    ELSE IF dir.size # SzZero THEN Out("ENOTEMPTY", g_bm, disk, ub, disk, FALSE)
    ELSE RmdirFree(r, name, ino, dir,
                   bwfs_free_blocks(g_bm, dir.blocks[1], dir.block_count))

\* op_rmdir after bwfs_dir_lookup returned ino
RmdirChild(r, name, ino, ub) ==
    IF ino = UINT32_MAX THEN Out("ENOENT", g_bm, disk, ub, disk, FALSE)
    ELSE IF ~CanRead(disk, ino) THEN Out("EIO", g_bm, disk, ub, disk, FALSE)
    ELSE RmdirDir(r, name, ino, ub, InodeOf(disk[ino]))

\* op_rmdir after bwfs_resolve returned r
RmdirIn(r, name) ==
    IF r.rc # BWFS_OK THEN Out("ENOENT", g_bm, disk, r.ub, disk, FALSE)
    ELSE RmdirChild(r, name, bwfs_dir_lookup(r.inode, disk, name),
                    r.ub \/ Loads(r.inode, disk))

op_rmdir(path) == RmdirIn(bwfs_resolve(ParentOf(path), disk), NameOf(path))

\* op_unlink: the inode block is freed and left bm1, then
\* bwfs_free_blocks(&g_bm, file.blocks[0], file.block_count)
UnlinkFree(r, name, ino, file, bm1) ==
    RemoveEntry(r, name, bwfs_free_blocks(bm1, file.blocks[1], file.block_count),
                FreeOutOfBuffer(g_bm, ino, 1)
                   \/ FreeOutOfBuffer(bm1, file.blocks[1], file.block_count))

\* op_unlink after bwfs_dir_lookup returned ino
UnlinkChild(r, name, ino, ub) ==
    IF ino = UINT32_MAX THEN Out("ENOENT", g_bm, disk, ub, disk, FALSE)
    ELSE IF ~CanRead(disk, ino) THEN Out("EIO", g_bm, disk, ub, disk, FALSE)
    ELSE UnlinkFree(r, name, ino, InodeOf(disk[ino]), bwfs_free_blocks(g_bm, ino, 1))

\* op_unlink after bwfs_resolve returned r
UnlinkIn(r, name) ==
    IF r.rc # BWFS_OK THEN Out("ENOENT", g_bm, disk, r.ub, disk, FALSE)
    ELSE UnlinkChild(r, name, bwfs_dir_lookup(r.inode, disk, name),
                     r.ub \/ Loads(r.inode, disk))

op_unlink(path) == UnlinkIn(bwfs_resolve(ParentOf(path), disk), NameOf(path))

\* the end of op_rename: bwfs_dir_add returned a
RenameEnd(a) == Out(RcOf(a.rc), g_bm, a.disk, TRUE, disk, FALSE)

\* op_rename after bwfs_dir_remove returned rm
RenameAdd(rm, to_name, child) ==
    IF rm.rc # BWFS_OK THEN Out("EIO", g_bm, rm.disk, TRUE, disk, FALSE)
    ELSE RenameEnd(bwfs_dir_add(g_bm, TRUE, rm.inode, rm.disk, to_name, child))

\* op_rename after bwfs_dir_lookup returned child
RenameChild(r, from_name, to_name, child, ub) ==
    IF child = UINT32_MAX THEN Out("ENOENT", g_bm, disk, ub, disk, FALSE)
    ELSE RenameAdd(bwfs_dir_remove(r.inode, disk, from_name), to_name, child)

\* op_rename after bwfs_resolve returned r
RenameIn(r, from_name, to_name) ==
    IF r.rc # BWFS_OK THEN Out("ENOENT", g_bm, disk, r.ub, disk, FALSE)
    ELSE RenameChild(r, from_name, to_name, bwfs_dir_lookup(r.inode, disk, from_name),
                     r.ub \/ Loads(r.inode, disk))

op_rename(from, to) ==
    IF ParentOf(from) # ParentOf(to) THEN Out("EXDEV", g_bm, disk, FALSE, disk, FALSE)
    ELSE RenameIn(bwfs_resolve(ParentOf(from), disk), NameOf(from), NameOf(to))

\* memcpy(block_buf + blk_off, buf, 1): the model writes the last byte of a block only
PutByte(c, blk_off, v) ==
    IF blk_off = BWFS_BLOCK_SIZE_BYTES - 1 THEN [c EXCEPT !.tail = v] ELSE c

Payload == 1          \* the byte op_write is handed

\* the while loop of op_write for size = 1: one iteration
WriteLoop(ino, off, bm, d, ub, oob) ==
    IF off.k >= BWFS_DIRECT_BLOCKS THEN Out("EFBIG", bm, d, ub, disk, oob)
    ELSE IF ~CanRead(d, ino.blocks[off.k + 1]) THEN Out("EIO", bm, d, ub, disk, oob)
    ELSE Out("OK", bm,
             WriteBlock(d, ino.blocks[off.k + 1],
                        PutByte(d[ino.blocks[off.k + 1]], off.r, Payload)),
             ub, disk, oob)

\* op_write after bwfs_inode_resize returned rz, with the call recorded
WriteResized(r, off, end, rz) ==
    [(IF rz.rc # BWFS_OK
      THEN Out("ENOSPC", rz.bm, rz.disk, r.ub, disk, rz.oob)
      ELSE WriteLoop(rz.inode, off, rz.bm, rz.disk, r.ub, rz.oob))
     EXCEPT !.rrc = rz.rc, !.new_size = end, !.rino = rz.inode]

\* op_write at the test off + size > ino.size
WriteAt(r, off, end) ==
    IF SzLess(r.inode.size, end)
    THEN WriteResized(r, off, end, bwfs_inode_resize(g_bm, r.inode, end, disk))
    ELSE WriteLoop(r.inode, off, g_bm, disk, r.ub, FALSE)

\* op_write after bwfs_resolve returned r
WriteIn(r, off) ==
    IF r.rc # BWFS_OK THEN Out("ENOENT", g_bm, disk, r.ub, disk, FALSE)
    ELSE IF IsDir(r.inode) THEN Out("EISDIR", g_bm, disk, r.ub, disk, FALSE)
    ELSE WriteAt(r, off, U32(off.k, off.r + 1))

\* op_write(path, buf, 1, off)
op_write(path, off) == WriteIn(bwfs_resolve(path, disk), off)

(***************************************************************************)
(* The mounted instance                                                    *)
(***************************************************************************)
\* offsets op_write is called with: the last byte of blocks 0, 1 and 2 of the
\* file, the first byte past the direct blocks, and the word 2^32 - 2
WriteOffsets == {Sz(0, BWFS_BLOCK_SIZE_BYTES - 1), Sz(1, BWFS_BLOCK_SIZE_BYTES - 1),
                 Sz(2, BWFS_BLOCK_SIZE_BYTES - 1), Sz(BWFS_DIRECT_BLOCKS, 0),
                 Sz(WrapK, WrapR - 2)}

RootInode == [ino |-> 2, size |-> SzZero, block_count |-> 0, flags |-> 1,
              blocks |-> NoBlocks]

\* the image op_init accepts: superblock, bitmap {0, 1, 2} and root inode as the
\* formatter persists them, over block files 0 .. TotalBlocks - 1
FormattedDisk ==
    [b \in 0..(TotalBlocks - 1) |->
        CASE b = BWFS_SUPERBLOCK_BLK ->
                 SuperBlock([total_blocks |-> TotalBlocks, root_inode |-> 2])
          [] b = BWFS_BITMAP_BLK -> BitmapBlock(FormattedBitmap)
          [] b = 2 -> InodeBlock(RootInode)
          [] OTHER -> ZeroBlock]

NoOp == [op |-> "none", path |-> <<>>, rc |-> "OK", rrc |-> "none",
         new_size |-> SzZero, rino |-> NoInode, data |-> 0]

\* op_init on the formatted image
MountInit ==
    /\ disk = FormattedDisk
    /\ g_sb = [total_blocks |-> TotalBlocks, root_inode |-> 2]
    /\ g_bm = FormattedBitmap
    /\ alive = TRUE
    /\ last = NoOp
    /\ nops = 0

\* the operation returns to its caller
Return(op, path, r) ==
    /\ nops < MaxOps
    /\ nops' = nops + 1
    /\ g_bm' = r.bm
    /\ disk' = r.disk
    /\ last' = [op |-> op, path |-> path, rc |-> r.rc, rrc |-> r.rrc,
                new_size |-> r.new_size, rino |-> r.rino, data |-> 0]
    /\ UNCHANGED <<g_sb, alive, abm, acall, mk, ck, fw, io, th>>

Create == alive /\ \E p \in Paths : Return("create", p, op_create(p))
Mkdir == alive /\ \E p \in Paths : Return("mkdir", p, op_mkdir(p))
Rmdir == alive /\ \E p \in Paths : Return("rmdir", p, op_rmdir(p))
Unlink == alive /\ \E p \in Paths : Return("unlink", p, op_unlink(p))
Rename == alive /\ \E p \in Paths, q \in Paths : Return("rename", p, op_rename(p, q))
Write == alive /\ \E p \in Paths, off \in WriteOffsets : Return("write", p, op_write(p, off))

\* every call the mount may receive, as its result
Results ==
    {op_create(p) : p \in Paths} \cup {op_mkdir(p) : p \in Paths}
        \cup {op_rmdir(p) : p \in Paths} \cup {op_unlink(p) : p \in Paths}
        \cup {op_rename(p, q) : p \in Paths, q \in Paths}
        \cup {op_write(p, off) : p \in Paths, off \in WriteOffsets}

\* the process is aborted by the allocator's integrity checks after a heap overrun
HeapAbort ==
    /\ alive
    /\ nops < MaxOps
    /\ nops' = nops + 1
    /\ \E r \in Results :
          /\ r.ub \/ r.oob
          /\ disk' = IF r.ub THEN r.adisk ELSE r.disk
    /\ alive' = FALSE
    /\ last' = [NoOp EXCEPT !.op = "abort", !.rc = "abort"]
    /\ UNCHANGED <<g_sb, g_bm, abm, acall, mk, ck, fw, io, th>>

Init == MountInit /\ abm = FormattedBitmap /\ acall = NoCall /\ mk = NoFormat /\ ck = NoCheck /\ fw = NoWalk /\ io = NoBlockFile /\ th = NoThreads

Next == Create \/ Mkdir \/ Rmdir \/ Unlink \/ Rename \/ Write \/ HeapAbort

Spec == Init /\ [][Next]_vars

(***************************************************************************)
(* The allocator on its own: one call on an arbitrary bitmap, the mounted  *)
(* instance left as formatted.                                             *)
(***************************************************************************)
AllocSpecInit == AllocInit /\ MountInit

AllocNext == AllocCall \/ FreeCall

AllocSpec == AllocSpecInit /\ [][AllocNext]_vars

(***************************************************************************)
(* Free runs of a bitmap, stated without reference to the scan             *)
(***************************************************************************)
IsFree(bm, i) == i \in 0..(bm.total_blocks - 1) /\ ~bm.map[i]

\* <<s, l>>: blocks s .. s+l-1 are free and the run cannot be extended
MaximalRuns(bm) ==
    {sl \in (0..(bm.total_blocks - 1)) \X (1..bm.total_blocks) :
        /\ \A i \in sl[1]..(sl[1] + sl[2] - 1) : IsFree(bm, i)
        /\ ~IsFree(bm, sl[1] - 1)
        /\ ~IsFree(bm, sl[1] + sl[2])}

LongestFreeRun(bm) ==
    IF MaximalRuns(bm) = {} THEN 0
    ELSE CHOOSE l \in 1..bm.total_blocks :
            /\ \E sl \in MaximalRuns(bm) : sl[2] = l
            /\ \A sl \in MaximalRuns(bm) : sl[2] <= l

\* the lowest start among the runs of the greatest length
WorstFitStart(bm) ==
    CHOOSE s \in 0..(bm.total_blocks - 1) :
        /\ <<s, LongestFreeRun(bm)>> \in MaximalRuns(bm)
        /\ \A sl \in MaximalRuns(bm) : sl[2] = LongestFreeRun(bm) => s <= sl[1]

\* C1 -- worst-fit allocation: when the bitmap has a free run and count does not
\* exceed the longest one, bwfs_alloc_blocks returns the lowest start of the longest
\* maximal free run, sets exactly the bits [start, start + count) and leaves every
\* other bit as it was.
C1_WorstFit ==
    (acall.op = "alloc" /\ LongestFreeRun(acall.pre) >= 1
        /\ acall.count <= LongestFreeRun(acall.pre))
    => /\ acall.ret = WorstFitStart(acall.pre)
       /\ abm.total_blocks = acall.pre.total_blocks
       /\ \A i \in DOMAIN acall.pre.map :
             abm.map[i] = (acall.pre.map[i]
                             \/ i \in acall.ret..(acall.ret + acall.count - 1))

\* scenario S2: the run [10..14] wins over [3..5] although count = 2 fits both
C1_Witness ==
    /\ acall.op = "alloc" /\ acall.pre = S2Bitmap /\ acall.count = 2
    /\ acall.ret = 10
    /\ \A i \in DOMAIN abm.map : abm.map[i] = (S2Bitmap.map[i] \/ i \in {10, 11})

\* C2 -- allocator rejection: for count >= 1 greater than the longest free run,
\* bwfs_alloc_blocks returns UINT32_MAX and leaves every bit unchanged.
C2_Rejection ==
    (acall.op = "alloc" /\ acall.count >= 1
        /\ acall.count > LongestFreeRun(acall.pre))
    => (acall.ret = UINT32_MAX /\ abm = acall.pre)

\* a rejection although free blocks exist: they are too fragmented for count
C2_Witness ==
    /\ acall.op = "alloc" /\ acall.count >= 2
    /\ LongestFreeRun(acall.pre) >= 1
    /\ Cardinality({i \in DOMAIN acall.pre.map : IsFree(acall.pre, i)}) >= acall.count
    /\ acall.count > LongestFreeRun(acall.pre)
    /\ acall.ret = UINT32_MAX /\ abm = acall.pre

(***************************************************************************)
(* Runs in which every operation served so far returned success            *)
(***************************************************************************)
SuccNext == (Create \/ Mkdir \/ Rmdir \/ Unlink \/ Rename \/ Write) /\ last'.rc = "OK"

SuccSpec == Init /\ [][SuccNext]_vars

(***************************************************************************)
(* The tree an image holds: inodes reachable from the root and the blocks  *)
(* they reference                                                          *)
(***************************************************************************)
Min(a, b) == IF a < b THEN a ELSE b

\* the first block_count block pointers of an inode
UsedPointers(inode) ==
    {inode.blocks[j] : j \in 1..Min(inode.block_count, BWFS_DIRECT_BLOCKS)}

\* the inode numbers the entries of directory inode number i name
Children(d, i) ==
    IF ~CanRead(d, i) THEN {}
    ELSE LET dir == InodeOf(d[i])
         IN  IF IsDir(dir) /\ Loads(dir, d)
             THEN {Slot(d[dir.blocks[1]], k).ino : k \in SlotIds} \ {0}
             ELSE {}

RECURSIVE ReachWithin(_, _, _)
ReachWithin(d, set, n) ==
    IF n = 0 THEN set
    ELSE ReachWithin(d, set \cup UNION {Children(d, i) : i \in set}, n - 1)

\* inode numbers reachable from the root
Reachable(d) == ReachWithin(d, {g_sb.root_inode}, TotalBlocks)

\* data blocks referenced by reachable inodes
LiveData(d) == UNION {UsedPointers(InodeOf(d[i])) : i \in {j \in Reachable(d) : CanRead(d, j)}}

BitSet(bm, b) == b \in DOMAIN bm.map /\ bm.map[b]
PopCount(bm) == Cardinality({b \in DOMAIN bm.map : bm.map[b]})

\* ceil(s / 125000) of a byte count, without the 32-bit wrap
CeilBlocks(sz) == sz.k + (IF sz.r > 0 THEN 1 ELSE 0)

\* this step returned from a bwfs_inode_resize that failed inside the expansion loop
GrowthFailed ==
    /\ last'.op = "write" /\ last'.rrc = BWFS_ERR_FULL
    /\ ReqBlocks(last'.new_size) <= BWFS_DIRECT_BLOCKS

\* C3 -- a growth resize that runs out of space part-way frees what it allocated:
\* g_bm and the bitmap persisted in block 1 afterwards equal the bitmap before.
C3_FailedGrowthRestoresBitmap ==
    [][GrowthFailed => (g_bm' = g_bm /\ disk'[BWFS_BITMAP_BLK] = BitmapBlock(g_bm))]_vars

\* C4 -- a failed resize frees no block in use: every bit set before the call for
\* the inode block or a data block of a reachable inode is still set afterwards.
C4_FailedResizeKeepsLiveBits ==
    [][last'.rrc = BWFS_ERR_FULL =>
          \A b \in Reachable(disk) \cup LiveData(disk) :
              BitSet(g_bm, b) => BitSet(g_bm', b)]_vars

\* the inode a resize acted on, as it was before and is after on disk
ResizedBefore == InodeOf(disk[last'.rino.ino])
ResizedAfter == InodeOf(disk'[last'.rino.ino])

ResizeShape(inode, s) ==
    /\ inode.block_count = CeilBlocks(s)
    /\ inode.block_count <= BWFS_DIRECT_BLOCKS
    /\ inode.size = s
    /\ \A j \in 1..BWFS_DIRECT_BLOCKS :
          (j <= inode.block_count) = (inode.blocks[j] # 0)

\* C5 -- resize result: on success block_count = ceil(s / 125000) <= 10, size = s,
\* the first block_count pointers are non-zero and the later ones zero; on failure
\* block_count and size are unchanged, in memory and on disk.
C5_ResizeResult ==
    [][/\ last'.rrc = BWFS_OK =>
             (ResizeShape(last'.rino, last'.new_size)
                /\ ResizeShape(ResizedAfter, last'.new_size))
       /\ last'.rrc = BWFS_ERR_FULL =>
             /\ last'.rino.block_count = ResizedBefore.block_count
             /\ last'.rino.size = ResizedBefore.size
             /\ ResizedAfter.block_count = ResizedBefore.block_count
             /\ ResizedAfter.size = ResizedBefore.size]_vars

\* C6 -- direct-block budget: for every 32-bit new_size with ceil(new_size / 125000)
\* > 10, bwfs_inode_resize returns Full and changes neither the inode nor the bitmap.
C6_BudgetForEverySize ==
    [][(last'.rrc # "none" /\ CeilBlocks(last'.new_size) > BWFS_DIRECT_BLOCKS) =>
          /\ last'.rrc = BWFS_ERR_FULL
          /\ g_bm' = g_bm
          /\ last'.rino = ResizedBefore
          /\ ResizedAfter = ResizedBefore]_vars

\* C7 -- after successful operations only, every reachable inode has the bit of its
\* own block set and each used block pointer b has its bit set, b < total_blocks,
\* b not in {0, 1}.
C7_ReachableInodesAllocated ==
    \A i \in Reachable(disk) :
        /\ BitSet(g_bm, i)
        /\ CanRead(disk, i) =>
              \A b \in UsedPointers(InodeOf(disk[i])) :
                  /\ BitSet(g_bm, b)
                  /\ b < g_sb.total_blocks
                  /\ b \notin {BWFS_SUPERBLOCK_BLK, BWFS_BITMAP_BLK}

\* C8 -- disjoint data regions: no block is a used pointer of two distinct reachable
\* inodes, and no block is both an inode block and a data block.
C8_DisjointRegions ==
    alive =>
       /\ \A i \in Reachable(disk), j \in Reachable(disk) :
             (i # j /\ CanRead(disk, i) /\ CanRead(disk, j)) =>
                 UsedPointers(InodeOf(disk[i])) \cap UsedPointers(InodeOf(disk[j])) = {}
       /\ Reachable(disk) \cap LiveData(disk) = {}

\* the unlinked file: its inode block and its record before the call
UnlinkedIno == bwfs_dir_lookup(bwfs_resolve(ParentOf(last'.path), disk).inode, disk,
                               NameOf(last'.path))
UnlinkedBlocks == {UnlinkedIno} \cup UsedPointers(InodeOf(disk[UnlinkedIno]))

\* C9 -- a successful unlink of a file clears the bit of its inode block and of each
\* of its data blocks, leaves every other bit unchanged, and the name stops resolving.
C9_UnlinkReleasesExactly ==
    [][(last'.op = "unlink" /\ last'.rc = "OK" /\ ~IsDir(InodeOf(disk[UnlinkedIno]))) =>
          /\ \A b \in DOMAIN g_bm.map :
                g_bm'.map[b] = (g_bm.map[b] /\ b \notin UnlinkedBlocks)
          /\ bwfs_resolve(last'.path, disk').rc # BWFS_OK]_vars

\* C10 -- bitmap conservation: the number of set bits is 2 plus the number of blocks
\* holding reachable inodes plus the number of distinct data blocks they reference.
C10_BitmapConservation ==
    alive => PopCount(g_bm) = 2 + Cardinality(Reachable(disk)) + Cardinality(LiveData(disk))

(***************************************************************************)
(* Runs of create, mkdir, unlink and rmdir only, failing calls included    *)
(***************************************************************************)
\* every create, mkdir, unlink and rmdir call the mount may receive, as its result
TreeResults ==
    {op_create(p) : p \in Paths} \cup {op_mkdir(p) : p \in Paths}
        \cup {op_rmdir(p) : p \in Paths} \cup {op_unlink(p) : p \in Paths}

\* the process is aborted after the heap overrun of one of these calls
TreeAbort ==
    /\ alive
    /\ nops < MaxOps
    /\ nops' = nops + 1
    /\ \E r \in TreeResults :
          /\ r.ub \/ r.oob
          /\ disk' = IF r.ub THEN r.adisk ELSE r.disk
    /\ alive' = FALSE
    /\ last' = [NoOp EXCEPT !.op = "abort", !.rc = "abort"]
    /\ UNCHANGED <<g_sb, g_bm, abm, acall, mk, ck, fw, io, th>>

TreeNext == Create \/ Mkdir \/ Rmdir \/ Unlink \/ TreeAbort

TreeSpec == Init /\ [][TreeNext]_vars

\* block b holds an inode record: the record read from it names b, and b is not
\* the data block of a reachable inode
HoldsInode(d, b) ==
    /\ b \notin {BWFS_SUPERBLOCK_BLK, BWFS_BITMAP_BLK}
    /\ CanRead(d, b)
    /\ InodeOf(d[b]).ino = b
    /\ b \notin LiveData(d)

\* C11 -- tree reachability: after any sequence of create, mkdir, unlink and rmdir
\* on the formatted image, failing calls included, every block that holds an inode
\* and is marked used in the bitmap is reachable from the root.
C11_TreeReachability ==
    alive => \A b \in DOMAIN g_bm.map :
                 (BitSet(g_bm, b) /\ HoldsInode(disk, b)) => b \in Reachable(disk)

(***************************************************************************)
(* The formatter (src/cli/mkfs_bwfs.c, the program with the -b option),    *)
(* one action per step of main, run on a new directory or over an old      *)
(* image.                                                                  *)
(***************************************************************************)
\* the directory before the formatter runs: empty, or holding a formatted image
FormatDisks == {[b \in {} |-> ZeroBlock], FormattedDisk}

FormatInit ==
    /\ disk \in FormatDisks
    /\ mk = [NoFormat EXCEPT !.pc = "start"] /\ ck = NoCheck /\ fw = NoWalk /\ io = NoBlockFile /\ th = NoThreads
    /\ g_sb = [total_blocks |-> 0, root_inode |-> 0]
    /\ g_bm = BitmapOf(1, {})
    /\ alive = FALSE
    /\ last = NoOp
    /\ nops = 0
    /\ abm = FormattedBitmap
    /\ acall = NoCall

\* main up to the bitmap prepared in memory with blocks 0 and 1 reserved
MkfsStart ==
    /\ mk.pc = "start"
    /\ \E n \in 2..MaxFormatBlocks :
          mk' = [pc |-> "root", total_blocks |-> n,
                 bm |-> bwfs_bm_set(bwfs_bm_set(BitmapOf(n, {}), BWFS_SUPERBLOCK_BLK, 1),
                                    BWFS_BITMAP_BLK, 1),
                 root_blk |-> 0, i |-> 0, exit |-> "none"]
    /\ UNCHANGED <<disk, g_sb, g_bm, alive, last, nops, abm, acall, ck, fw, io, th>>

\* main after bwfs_create_inode returned c
MkfsRootAt(c) ==
    IF c.ret = UINT32_MAX
    THEN mk' = [mk EXCEPT !.pc = "done", !.exit = "EXIT_FAILURE"] /\ disk' = c.disk
    ELSE mk' = [mk EXCEPT !.pc = "persist", !.bm = c.bm, !.root_blk = c.ret]
         /\ disk' = c.disk

\* root_blk = bwfs_create_inode(&bm, true, fs_dir)
MkfsCreateRoot ==
    /\ mk.pc = "root"
    /\ MkfsRootAt(bwfs_create_inode(mk.bm, TRUE, disk))
    /\ UNCHANGED <<g_sb, g_bm, alive, last, nops, abm, acall, ck, fw, io, th>>

\* sb.root_inode = root_blk; bwfs_write_superblock; bwfs_write_bitmap
MkfsPersist ==
    /\ mk.pc = "persist"
    /\ disk' = bwfs_write_bitmap(mk.bm,
                  WriteBlock(disk, BWFS_SUPERBLOCK_BLK,
                             SuperBlock([total_blocks |-> mk.total_blocks,
                                         root_inode |-> mk.root_blk])))
    /\ mk' = [mk EXCEPT !.pc = "blocks", !.i = 0]
    /\ UNCHANGED <<g_sb, g_bm, alive, last, nops, abm, acall, ck, fw, io, th>>

\* one iteration of create_all_blocks: util_create_empty_block(dir, i)
MkfsCreateBlock ==
    /\ mk.pc = "blocks"
    /\ mk.i < mk.total_blocks
    /\ disk' = WriteBlock(disk, mk.i, ZeroBlock)
    /\ mk' = [mk EXCEPT !.i = mk.i + 1]
    /\ UNCHANGED <<g_sb, g_bm, alive, last, nops, abm, acall, ck, fw, io, th>>

\* create_all_blocks returned 0: return EXIT_SUCCESS
MkfsExit ==
    /\ mk.pc = "blocks"
    /\ mk.i >= mk.total_blocks
    /\ mk' = [mk EXCEPT !.pc = "done", !.exit = "EXIT_SUCCESS"]
    /\ UNCHANGED <<disk, g_sb, g_bm, alive, last, nops, abm, acall, ck, fw, io, th>>

FormatNext == MkfsStart \/ MkfsCreateRoot \/ MkfsPersist \/ MkfsCreateBlock \/ MkfsExit

FormatSpec == FormatInit /\ [][FormatNext]_vars

\* the superblock fields util_read_block leaves in *sb
SuperOf(c) == [total_blocks |-> c.size.r, root_inode |-> c.block_count]

\* bwfs_read_superblock: its return code
bwfs_read_superblock(d) ==
    IF ~CanRead(d, BWFS_SUPERBLOCK_BLK) THEN BWFS_ERR_IO
    ELSE IF d[BWFS_SUPERBLOCK_BLK].ino # BWFS_MAGIC
            \/ d[BWFS_SUPERBLOCK_BLK].flags # SuperBlock(SuperOf(d[BWFS_SUPERBLOCK_BLK])).flags
    THEN BWFS_ERR_FULL
    ELSE BWFS_OK

\* bwfs_read_bitmap for total_blocks = n: the map bytes of block 1
BitmapRead(n, d) ==
    [total_blocks |-> n,
     map |-> [i \in 0..(MapBits(n) - 1) |->
                 (d[BWFS_BITMAP_BLK].ino \div Pow2(i)) % 2 = 1]]

\* C12 -- format result: after the formatter succeeds with total_blocks = n >= 3,
\* block 0 reads back as a valid superblock with total_blocks n and root_inode 2,
\* block 1 as a bitmap with exactly the bits {0, 1, 2} set, and block 2 as a
\* directory inode with ino 2, size 0 and block_count 0.
C12_FormatResult ==
    (mk.exit = "EXIT_SUCCESS" /\ mk.total_blocks >= 3) =>
        /\ bwfs_read_superblock(disk) = BWFS_OK
        /\ SuperOf(disk[BWFS_SUPERBLOCK_BLK])
              = [total_blocks |-> mk.total_blocks, root_inode |-> 2]
        /\ BitmapRead(mk.total_blocks, disk) = BitmapOf(mk.total_blocks, {0, 1, 2})
        /\ InodeOf(disk[2]) = [RootInode EXCEPT !.ino = 2]

(***************************************************************************)
(* The consistency checker (src/cli/fsck_bwfs.c).  Its context ctx holds   *)
(* the counters of fsck_context_t, the superblock and bitmap it loaded,    *)
(* block_used and inode_used as sets, the image, and                       *)
(*   repair    the answer fsck_ask_repair gives: -y, or the user's answer  *)
(*   repaired  how many of the repairs counted in errors_fixed followed a  *)
(*             finding logged as an error                                  *)
(*   loaded    check_superblock and check_bitmap loaded both blocks        *)
(*   rc        the value the last check returned                           *)
(*   ub        a directory block was read into the 124800-byte buffer      *)
(*   adisk     the image at the first free() of such a buffer              *)
(***************************************************************************)
FsckContext(d, repair) ==
    [repair |-> repair, rc |-> 0, errors_found |-> 0, errors_fixed |-> 0, warnings |-> 0,
     repaired |-> 0, sb |-> [total_blocks |-> 0, root_inode |-> 0],
     bitmap |-> BitmapOf(1, {}), block_used |-> {}, inode_used |-> {}, disk |-> d,
     entry_count |-> 0, ub |-> FALSE, freed |-> FALSE, adisk |-> d, loaded |-> FALSE]

\* fsck_log(ctx, FSCK_ERROR, ...) and fsck_log(ctx, FSCK_WARNING, ...)
LogError(ctx) == [ctx EXCEPT !.errors_found = @ + 1]
LogWarning(ctx) == [ctx EXCEPT !.warnings = @ + 1]
\* ctx->errors_fixed++ after an error and after a warning
FixedError(ctx) == [ctx EXCEPT !.errors_fixed = @ + 1, !.repaired = @ + 1]
FixedWarning(ctx) == [ctx EXCEPT !.errors_fixed = @ + 1]
\* return -1 and return 0
Fail(ctx) == [ctx EXCEPT !.rc = -1]
Pass(ctx) == [ctx EXCEPT !.rc = 0]

\* check_superblock once bwfs_read_superblock loaded sb
CheckSuperFields(ctx, sb) ==
    IF sb.total_blocks < 3 THEN Fail(LogError(ctx))
    ELSE IF sb.root_inode >= sb.total_blocks THEN Fail(LogError(ctx))
    ELSE Pass([ctx EXCEPT !.sb = sb])

check_superblock(ctx) ==
    IF bwfs_read_superblock(ctx.disk) # BWFS_OK THEN Fail(LogError(ctx))
    ELSE CheckSuperFields(ctx, SuperOf(ctx.disk[BWFS_SUPERBLOCK_BLK]))

\* check_bitmap: a critical block that the bitmap marks free
CheckCritical(ctx, blk) ==
    IF bwfs_bm_test(ctx.bitmap, blk) # 0 THEN ctx
    ELSE IF ctx.repair
    THEN FixedError(LogError([ctx EXCEPT !.bitmap = bwfs_bm_set(ctx.bitmap, blk, 1)]))
    ELSE LogError(ctx)

\* check_bitmap once bwfs_read_bitmap loaded the map
CheckBitmapLoaded(ctx) ==
    Pass([CheckCritical(CheckCritical(CheckCritical(ctx, BWFS_SUPERBLOCK_BLK),
                                      BWFS_BITMAP_BLK), ctx.sb.root_inode)
          EXCEPT !.block_used = {BWFS_SUPERBLOCK_BLK, BWFS_BITMAP_BLK, ctx.sb.root_inode},
                 !.loaded = TRUE])

check_bitmap(ctx) ==
    IF ~CanRead(ctx.disk, BWFS_BITMAP_BLK) THEN Fail(LogError(ctx))
    ELSE CheckBitmapLoaded([ctx EXCEPT !.bitmap = BitmapRead(ctx.sb.total_blocks, ctx.disk)])

\* a repair of check_single_inode: the corrected inode is written and counted
InodeRepaired(ctx, inode) ==
    FixedError([ctx EXCEPT !.disk = bwfs_write_inode(inode, ctx.disk)])

\* check_single_inode: size against capacity, for regular files
CheckInodeSize(ctx, ino, inode) ==
    IF IsDir(inode) \/ ~SzLess(U32(inode.block_count, 0), inode.size) THEN Pass(ctx)
    ELSE IF ctx.repair
    THEN Pass(InodeRepaired(LogError(ctx),
                            [inode EXCEPT !.size = U32(inode.block_count, 0)]))
    ELSE Pass(LogError(ctx))

\* check_single_inode: block_count against the real_blocks counted
CheckInodeCount(ctx, ino, inode, real_blocks) ==
    IF inode.block_count = real_blocks THEN CheckInodeSize(ctx, ino, inode)
    ELSE IF ctx.repair
    THEN CheckInodeSize(InodeRepaired(LogError(ctx),
                                      [inode EXCEPT !.block_count = real_blocks]),
                        ino, [inode EXCEPT !.block_count = real_blocks])
    ELSE CheckInodeSize(LogError(ctx), ino, inode)

RECURSIVE CheckInodeBlocks(_, _, _, _)
\* check_single_inode: the loop over the leading non-zero block pointers
CheckInodeBlocks(ctx, ino, inode, i) ==
    IF i >= BWFS_DIRECT_BLOCKS \/ inode.blocks[i + 1] = 0
    THEN CheckInodeCount(ctx, ino, inode, i)
    ELSE IF inode.blocks[i + 1] >= ctx.sb.total_blocks THEN Fail(LogError(ctx))
    ELSE CheckInodeBlocks([ctx EXCEPT !.block_used = @ \cup {inode.blocks[i + 1]}],
                          ino, inode, i + 1)

\* check_single_inode: the number held by the record against the block read
CheckInodeNumber(ctx, ino, inode) ==
    IF inode.ino = ino THEN CheckInodeBlocks(ctx, ino, inode, 0)
    ELSE IF ctx.repair
    THEN CheckInodeBlocks(InodeRepaired(LogError(ctx), [inode EXCEPT !.ino = ino]),
                          ino, [inode EXCEPT !.ino = ino], 0)
    ELSE CheckInodeBlocks(LogError(ctx), ino, inode, 0)

check_single_inode(ctx, ino) ==
    IF ~CanRead(ctx.disk, ino) THEN Fail(LogError(ctx))
    ELSE CheckInodeNumber(ctx, ino, InodeOf(ctx.disk[ino]))

\* ctx->inode_used[ino / 8] |= (1 << (ino % 8))
InodeFound(ctx, ino) == [ctx EXCEPT !.inode_used = @ \cup {ino}]

RECURSIVE check_directory_recursive(_, _, _)
RECURSIVE WalkDir(_, _, _, _)
RECURSIVE WalkEntries(_, _, _, _, _)
RECURSIVE WalkChild(_, _, _)

\* the loop body after check_single_inode returned cs for the child
WalkChild(cs, child_ino, depth) ==
    IF cs.rc # 0 THEN cs
    ELSE IF ~CanRead(cs.disk, child_ino) THEN cs
    ELSE IF IsDir(InodeOf(cs.disk[child_ino]))
    THEN InodeFound(check_directory_recursive(cs, child_ino, depth + 1), child_ino)
    ELSE InodeFound(cs, child_ino)

\* the loop of check_directory_recursive over the loaded entries, from slot i on
WalkEntries(ctx, entries, i, entry_count, depth) ==
    IF i >= TrackedSlots THEN [ctx EXCEPT !.entry_count = entry_count]
    ELSE IF Slot(entries, i).ino = 0
    THEN WalkEntries(ctx, entries, i + 1, entry_count, depth)
    ELSE IF Slot(entries, i).ino >= ctx.sb.total_blocks
    THEN WalkEntries(LogError(ctx), entries, i + 1, entry_count + 1, depth)
    ELSE WalkEntries(WalkChild(check_single_inode(ctx, Slot(entries, i).ino),
                               Slot(entries, i).ino, depth),
                     entries, i + 1, entry_count + 1, depth)

\* the end of check_directory_recursive: the size test and free(entries)
WalkEnd(ctx, dir_inode) ==
    Pass([(IF dir_inode.size # Sz(0, ctx.entry_count * DirEntrySize)
           THEN LogWarning(ctx) ELSE ctx)
          EXCEPT !.freed = TRUE, !.adisk = IF ctx.freed THEN @ ELSE ctx.disk])

\* check_directory_recursive on the inode read from block dir_ino
WalkDir(ctx, dir_ino, dir_inode, depth) ==
    IF ~IsDir(dir_inode) THEN Fail(LogError(ctx))
    ELSE IF dir_inode.block_count = 0 THEN Pass(InodeFound(ctx, dir_ino))
    ELSE IF ~CanRead(ctx.disk, dir_inode.blocks[1])
    THEN Fail(LogError(InodeFound(ctx, dir_ino)))
    ELSE WalkEnd(WalkEntries([InodeFound(ctx, dir_ino) EXCEPT !.ub = TRUE],
                             ctx.disk[dir_inode.blocks[1]], 0, 0, depth),
                 dir_inode)

check_directory_recursive(ctx, dir_ino, depth) ==
    IF depth > 100 THEN Fail(LogError(ctx))
    ELSE IF ~CanRead(ctx.disk, dir_ino) THEN Fail(LogError(ctx))
    ELSE WalkDir(ctx, dir_ino, InodeOf(ctx.disk[dir_ino]), depth)

\* check_bitmap_consistency: block i is marked used and not referenced
LeakedBlock(ctx, i) ==
    IF ctx.repair
    THEN FixedWarning(LogWarning([ctx EXCEPT !.bitmap = bwfs_bm_set(ctx.bitmap, i, 0)]))
    ELSE LogWarning(ctx)

\* check_bitmap_consistency: block i is referenced and marked free
FalseFree(ctx, i) ==
    IF ctx.repair
    THEN FixedError(LogError([ctx EXCEPT !.bitmap = bwfs_bm_set(ctx.bitmap, i, 1)]))
    ELSE LogError(ctx)

RECURSIVE ConsistencyLoop(_, _, _)
\* the loop of check_bitmap_consistency from block i on, then the write of a
\* dirty bitmap
ConsistencyLoop(ctx, i, bitmap_dirty) ==
    IF i >= ctx.sb.total_blocks
    THEN Pass(IF bitmap_dirty
              THEN [ctx EXCEPT !.disk = bwfs_write_bitmap(ctx.bitmap, ctx.disk)]
              ELSE ctx)
    ELSE IF bwfs_bm_test(ctx.bitmap, i) # 0 /\ i \notin ctx.block_used
    THEN ConsistencyLoop(LeakedBlock(ctx, i), i + 1, bitmap_dirty \/ ctx.repair)
    ELSE IF bwfs_bm_test(ctx.bitmap, i) = 0 /\ i \in ctx.block_used
    THEN ConsistencyLoop(FalseFree(ctx, i), i + 1, bitmap_dirty \/ ctx.repair)
    ELSE ConsistencyLoop(ctx, i + 1, bitmap_dirty)

check_bitmap_consistency(ctx) == ConsistencyLoop(ctx, 0, FALSE)

RECURSIVE OrphanLoop(_, _)
\* step 6 of run_fsck: blocks marked used that hold an inode no entry led to
OrphanLoop(ctx, i) ==
    IF i >= ctx.sb.total_blocks THEN Pass(ctx)
    ELSE IF /\ bwfs_bm_test(ctx.bitmap, i) # 0
            /\ i \notin ctx.inode_used
            /\ CanRead(ctx.disk, i)
            /\ InodeOf(ctx.disk[i]).ino = i
    THEN OrphanLoop(LogWarning(ctx), i + 1)
    ELSE OrphanLoop(ctx, i + 1)

\* run_fsck from each of its steps on; a step that fails ends the run
FsckOrphans(ctx) == IF ctx.rc # 0 THEN ctx ELSE OrphanLoop(ctx, 2)
FsckConsistency(ctx) ==
    IF ctx.rc # 0 THEN ctx ELSE FsckOrphans(check_bitmap_consistency(ctx))
FsckWalk(ctx) ==
    IF ctx.rc # 0 THEN ctx
    ELSE FsckConsistency(check_directory_recursive(ctx, ctx.sb.root_inode, 0))
FsckBitmap(ctx) == IF ctx.rc # 0 THEN ctx ELSE FsckWalk(check_bitmap(ctx))

run_fsck(d, repair) == FsckBitmap(check_superblock(FsckContext(d, repair)))

\* the exit status main derives from run_fsck's result and the counters
ExitCode(ctx) ==
    IF ctx.rc # 0 THEN 8
    ELSE IF ctx.errors_found = 0 THEN 0
    ELSE IF ctx.errors_fixed = ctx.errors_found THEN 1
    ELSE 4

SIGABRT == 134        \* exit status of a process killed by abort()

\* what a run of the checker leaves behind
Checked(ctx, exit) ==
    [done |-> TRUE, exit |-> exit, repair |-> ctx.repair,
     errors_found |-> ctx.errors_found, errors_fixed |-> ctx.errors_fixed,
     warnings |-> ctx.warnings, repaired |-> ctx.repaired, loaded |-> ctx.loaded]

\* main returns after run_fsck left ctx
FsckReturn(ctx) ==
    /\ ck' = Checked(ctx, ExitCode(ctx))
    /\ disk' = ctx.disk

\* the run is aborted by the allocator's integrity checks after the heap overrun
FsckAborted(ctx) ==
    /\ ctx.ub
    /\ ck' = [NoCheck EXCEPT !.done = TRUE, !.exit = SIGABRT, !.repair = ctx.repair]
    /\ disk' = ctx.adisk

\* the checker can be run on a formatted directory or on an image the mount served
FsckEnabled == ~ck.done /\ (alive \/ mk.exit = "EXIT_SUCCESS")

\* fsck_bwfs [-y] <dir> on the unmounted image
FsckRun ==
    /\ FsckEnabled
    /\ \E repair \in BOOLEAN : FsckReturn(run_fsck(disk, repair))
    /\ alive' = FALSE
    /\ UNCHANGED <<g_sb, g_bm, last, nops, abm, acall, mk, fw, io, th>>

FsckAbort ==
    /\ FsckEnabled
    /\ \E repair \in BOOLEAN : FsckAborted(run_fsck(disk, repair))
    /\ alive' = FALSE
    /\ UNCHANGED <<g_sb, g_bm, last, nops, abm, acall, mk, fw, io, th>>

(***************************************************************************)
(* The checker run on what the engine produces: a formatted directory, or  *)
(* the image after create, mkdir, unlink and rmdir calls                   *)
(***************************************************************************)
EngineCheckInit == Init \/ FormatInit

EngineCheckNext == TreeNext \/ FormatNext \/ FsckRun \/ FsckAbort

EngineCheckSpec == EngineCheckInit /\ [][EngineCheckNext]_vars

\* C13 -- fsck is clean on engine-produced filesystems: run on a freshly formatted
\* filesystem, and after any sequence of create, mkdir, unlink and rmdir operations
\* on it, fsck finds 0 errors and exits with code 0.
C13_FsckClean == ck.done => (ck.errors_found = 0 /\ ck.exit = 0)

(***************************************************************************)
(* Directory harness: bwfs_dir_add and bwfs_dir_remove called on the root  *)
(* directory of a formatted image (src/core/dir.c), the way op_create,     *)
(* op_mkdir, op_rename, op_unlink and op_rmdir call them.                  *)
(***************************************************************************)
\* the image the formatter persists for n blocks
FormattedImage(n) ==
    [b \in 0..(n - 1) |->
        CASE b = BWFS_SUPERBLOCK_BLK -> SuperBlock([total_blocks |-> n, root_inode |-> 2])
          [] b = BWFS_BITMAP_BLK -> BitmapBlock(BitmapOf(n, {0, 1, 2}))
          [] b = 2 -> InodeBlock(RootInode)
          [] OTHER -> ZeroBlock]

\* inode numbers handed to bwfs_dir_add as child_ino
ChildInos == {5, 6}
\* number of calls the directory harness makes: enough to fill the tracked slots
\* and call once more
MaxDirCalls == 5

\* the directory the harness calls are made on: the root inode as read from disk
DirInode(d) == InodeOf(d[2])

\* some occupied slot of the directory holds name
NameHeld(dir_inode, d, name) ==
    /\ Loads(dir_inode, d)
    /\ \E i \in SlotIds : /\ Slot(d[dir_inode.blocks[1]], i).ino # 0
                          /\ Slot(d[dir_inode.blocks[1]], i).name = name

\* the directory has a slot with ino == 0
HasFreeSlot(dir_inode, d) ==
    Loads(dir_inode, d) /\ \E i \in SlotIds : Slot(d[dir_inode.blocks[1]], i).ino = 0

\* the content of the directory's data block, or none
DirBlock(dir_inode, d) ==
    IF Loads(dir_inode, d) THEN d[dir_inode.blocks[1]] ELSE ZeroBlock

DirInit ==
    /\ \E n \in {3, TotalBlocks} :
          /\ disk = FormattedImage(n)
          /\ g_sb = [total_blocks |-> n, root_inode |-> 2]
          /\ g_bm = BitmapOf(n, {0, 1, 2})
    /\ alive = TRUE
    /\ last = NoOp
    /\ nops = 0
    /\ abm = FormattedBitmap
    /\ acall = NoCall
    /\ mk = NoFormat
    /\ ck = NoCheck /\ fw = NoWalk /\ io = NoBlockFile /\ th = NoThreads

\* the record of a directory call
DirCall(op, name, ino, bm_null, rc) ==
    [op |-> op, name |-> name, ino |-> ino, bm_null |-> bm_null, rc |-> rc]

\* the directory call returned r to its caller
DirReturn(op, name, ino, bm_null, r, bm) ==
    /\ nops < MaxDirCalls
    /\ nops' = nops + 1
    /\ g_bm' = bm
    /\ disk' = r.disk
    /\ acall' = DirCall(op, name, ino, bm_null, r.rc)
    /\ UNCHANGED <<g_sb, alive, last, abm, mk, ck, fw, io, th>>

\* the process was aborted after the heap overrun of load_entries
DirAborted(op, name, ino, bm_null, r) ==
    /\ nops < MaxDirCalls
    /\ nops' = nops + 1
    /\ r.ub
    /\ disk' = r.adisk
    /\ alive' = FALSE
    /\ acall' = DirCall(op, name, ino, bm_null, "abort")
    /\ UNCHANGED <<g_sb, g_bm, last, abm, mk, ck, fw, io, th>>

DirAddOf(name, ino, bm_null) ==
    bwfs_dir_add(g_bm, bm_null, DirInode(disk), disk, name, ino)

DirAddReturn(name, ino, bm_null, r) == DirReturn("dir_add", name, ino, bm_null, r, r.bm)

DirAdd ==
    alive /\ \E name \in EntryNames, ino \in ChildInos, bm_null \in BOOLEAN :
                 DirAddReturn(name, ino, bm_null, DirAddOf(name, ino, bm_null))

DirRemove ==
    alive /\ \E name \in EntryNames :
                 DirReturn("dir_remove", name, 0, FALSE,
                           bwfs_dir_remove(DirInode(disk), disk, name), g_bm)

DirAbort ==
    alive /\ \/ \E name \in EntryNames, ino \in ChildInos, bm_null \in BOOLEAN :
                   DirAborted("dir_add", name, ino, bm_null, DirAddOf(name, ino, bm_null))
             \/ \E name \in EntryNames :
                   DirAborted("dir_remove", name, 0, FALSE,
                              bwfs_dir_remove(DirInode(disk), disk, name))

DirNext == DirAdd \/ DirRemove \/ DirAbort
DirSpec == DirInit /\ [][DirNext]_vars

\* C14 -- directory uniqueness: bwfs_dir_add(name, ino) succeeds if and only if no
\* occupied slot of the directory holds the name before the call; after a success
\* bwfs_dir_lookup(name) returns ino, and after a failure the directory block and
\* the directory inode are unchanged.
C14_DirectoryUniqueness ==
    [][acall'.op = "dir_add" =>
          /\ (acall'.rc = BWFS_OK) <=> ~NameHeld(DirInode(disk), disk, acall'.name)
          /\ acall'.rc = BWFS_OK =>
                 bwfs_dir_lookup(DirInode(disk'), disk', acall'.name) = acall'.ino
          /\ acall'.rc \notin {BWFS_OK, "abort"} =>
                 /\ DirInode(disk') = DirInode(disk)
                 /\ DirBlock(DirInode(disk'), disk') = DirBlock(DirInode(disk), disk)]_vars

\* the number of bytes a size word stands for
Bytes(sz) == sz.k * BWFS_BLOCK_SIZE_BYTES + sz.r

\* C15 -- directory removal: bwfs_dir_remove(name) on a directory that holds name
\* returns Ok, after which lookup(name) is NotFound, every other name looks up to
\* the same inode and the directory size is 260 bytes less; on a directory that
\* does not hold name it returns NotFound and leaves block and inode unchanged.
C15_DirectoryRemoval ==
    [][acall'.op = "dir_remove" =>
          IF NameHeld(DirInode(disk), disk, acall'.name)
          THEN /\ acall'.rc = BWFS_OK
               /\ bwfs_dir_lookup(DirInode(disk'), disk', acall'.name) = UINT32_MAX
               /\ \A n \in EntryNames \ {acall'.name} :
                      bwfs_dir_lookup(DirInode(disk'), disk', n)
                          = bwfs_dir_lookup(DirInode(disk), disk, n)
               /\ Bytes(DirInode(disk').size) = Bytes(DirInode(disk).size) - DirEntrySize
          ELSE /\ acall'.rc = NotFoundRc
               /\ DirInode(disk') = DirInode(disk)
               /\ DirBlock(DirInode(disk'), disk') = DirBlock(DirInode(disk), disk)]_vars

(***************************************************************************)
(* The mounted instance with the aborted call on record: every operation   *)
(* of bwfs_ops the model has, each ending in its return or, after the heap *)
(* overrun of load_entries or a write outside the bitmap buffer, in the    *)
(* abort of the process.                                                   *)
(***************************************************************************)
\* the process is aborted during the call op(path), whose run is r
Aborted(op, path, r) ==
    /\ nops < MaxOps
    /\ nops' = nops + 1
    /\ r.ub \/ r.oob
    /\ disk' = IF r.ub THEN r.adisk ELSE r.disk
    /\ alive' = FALSE
    /\ last' = [NoOp EXCEPT !.op = op, !.path = path, !.rc = "abort"]
    /\ UNCHANGED <<g_sb, g_bm, abm, acall, mk, ck, fw, io, th>>

CallAbort ==
    alive /\ \/ \E p \in Paths : Aborted("create", p, op_create(p))
             \/ \E p \in Paths : Aborted("mkdir", p, op_mkdir(p))
             \/ \E p \in Paths : Aborted("rmdir", p, op_rmdir(p))
             \/ \E p \in Paths : Aborted("unlink", p, op_unlink(p))
             \/ \E p \in Paths, q \in Paths : Aborted("rename", <<p, q>>, op_rename(p, q))
             \/ \E p \in Paths, off \in WriteOffsets : Aborted("write", <<p, off>>, op_write(p, off))

\* op_rename with both of its paths on record
RenameCall ==
    alive /\ \E p \in Paths, q \in Paths : Return("rename", <<p, q>>, op_rename(p, q))

\* op_write with its offset on record
WriteCall ==
    alive /\ \E p \in Paths, off \in WriteOffsets :
                 Return("write", <<p, off>>, op_write(p, off))

\* the byte at blk_off of block content c, for the first and the last byte
GetByte(c, blk_off) ==
    CASE blk_off = BWFS_BLOCK_SIZE_BYTES - 1 -> c.tail
      [] blk_off = 0 -> c.ino % 256

ReadResult(rc, data) == [rc |-> rc, data |-> data]

\* op_read with blk_idx past the end of ino.blocks: the word found there names
\* any block or none, or the read faults
StrayReads ==
    {ReadResult("EIO", 0), ReadResult("abort", 0)}
        \cup {ReadResult("OK", v) : v \in {0, Payload}}

\* the while loop of op_read for size = 1: one iteration
ReadLoop(ino, off, d) ==
    IF off.k >= BWFS_DIRECT_BLOCKS THEN StrayReads
    ELSE IF ~CanRead(d, ino.blocks[off.k + 1]) THEN {ReadResult("EIO", 0)}
    ELSE {ReadResult("OK", GetByte(d[ino.blocks[off.k + 1]], off.r))}

\* op_read after bwfs_resolve returned r: the results the call can end in
ReadIn(r, off, d) ==
    (IF r.ub THEN {ReadResult("abort", 0)} ELSE {})
        \cup (IF r.rc # BWFS_OK THEN {ReadResult("ENOENT", 0)}
              ELSE IF ~SzLess(off, r.inode.size) THEN {ReadResult("EOF", 0)}
              ELSE ReadLoop(r.inode, off, d))

\* op_read(path, buf, 1, off) on the image d
op_read(path, off, d) == ReadIn(bwfs_resolve(path, d), off, d)

\* offsets op_read is called with: the first and the last byte of a block
ReadOffsets == {off \in WriteOffsets : off.r \in {0, BWFS_BLOCK_SIZE_BYTES - 1}}

ReadCall ==
    /\ alive
    /\ nops < MaxOps
    /\ nops' = nops + 1
    /\ \E p \in Paths, off \in ReadOffsets :
          \E o \in op_read(p, off, disk) :
              /\ last' = [NoOp EXCEPT !.op = "read", !.path = <<p, off>>,
                                      !.rc = o.rc, !.data = o.data]
              /\ alive' = (o.rc # "abort")
    /\ UNCHANGED <<disk, g_sb, g_bm, abm, acall, mk, ck, fw, io, th>>

CallNext ==
    Create \/ Mkdir \/ Rmdir \/ Unlink \/ RenameCall \/ WriteCall \/ ReadCall \/ CallAbort
CallSpec == Init /\ [][CallNext]_vars

\* some slot of the directory's data block is occupied
HasEntries(dir_inode, d) ==
    /\ Loads(dir_inode, d)
    /\ \E i \in SlotIds : Slot(d[dir_inode.blocks[1]], i).ino # 0

\* path names a directory of the image d
IsDirectoryAt(path, d) ==
    bwfs_resolve(path, d).rc = BWFS_OK /\ IsDir(bwfs_resolve(path, d).inode)

\* what the claim requires of rmdir(path) on the directory dir
RmdirOutcome(path, dir) ==
    IF HasEntries(dir, disk)
    THEN /\ last'.rc = "ENOTEMPTY"
         /\ g_bm' = g_bm
         /\ disk' = disk
    ELSE /\ last'.rc = "OK"
         /\ ~BitSet(g_bm', dir.ino)
         /\ dir.block_count # 0 => ~BitSet(g_bm', dir.blocks[1])
         /\ bwfs_resolve(path, disk').rc # BWFS_OK

\* C16 -- rmdir emptiness check: rmdir of a directory that holds at least one entry
\* fails with NotEmpty and changes neither bitmap, inodes nor directory blocks;
\* rmdir of a directory with no entries, with or without a data block, succeeds,
\* clears the bits of its inode block and of its data block, and the name no
\* longer resolves.
C16_RmdirEmptiness ==
    [][(last'.op = "rmdir" /\ IsDirectoryAt(last'.path, disk)) =>
          RmdirOutcome(last'.path, bwfs_resolve(last'.path, disk).inode)]_vars

\* the parent of from is a directory that holds the old name and not the new one
Renamable(from, to) ==
    /\ IsDirectoryAt(ParentOf(from), disk)
    /\ bwfs_resolve(from, disk).rc = BWFS_OK
    /\ bwfs_resolve(to, disk).rc # BWFS_OK
    /\ ~NameHeld(bwfs_resolve(ParentOf(from), disk).inode, disk, NameOf(to))

\* what the claim requires of rename(from, to)
RenameOutcome(from, to) ==
    IF ParentOf(from) # ParentOf(to)
    THEN /\ last'.rc = "EXDEV"
         /\ g_bm' = g_bm
         /\ disk' = disk
    ELSE Renamable(from, to) =>
             /\ last'.rc = "OK"
             /\ bwfs_resolve(to, disk').rc = BWFS_OK
             /\ bwfs_resolve(to, disk').inode = bwfs_resolve(from, disk).inode
             /\ bwfs_resolve(from, disk').rc # BWFS_OK
             /\ g_bm' = g_bm
             /\ disk'[BWFS_BITMAP_BLK] = disk[BWFS_BITMAP_BLK]

\* C17 -- rename: a rename between two different parent directories returns
\* CrossDevice and changes no state; a rename within one parent directory to a name
\* not present succeeds, after which the new name resolves to the original inode,
\* the old name is NotFound and the bitmap is unchanged.
C17_Rename ==
    [][last'.op = "rename" => RenameOutcome(last'.path[1], last'.path[2])]_vars

\* the byte of the file at off as a completed read hands it back, or -1
FileByte(path, off, d) ==
    IF \E v \in {0, Payload} : op_read(path, off, d) \ {ReadResult("abort", 0)}
                                   = {ReadResult("OK", v)}
    THEN CHOOSE v \in {0, Payload} : ReadResult("OK", v) \in op_read(path, off, d)
    ELSE -1

\* the larger of two size words
SzMax(a, b) == IF SzLess(a, b) THEN b ELSE a
\* off + 1 as a byte count, without the 32-bit wrap
EndOf(off) ==
    IF off.r + 1 = BWFS_BLOCK_SIZE_BYTES THEN Sz(off.k + 1, 0) ELSE Sz(off.k, off.r + 1)

\* what the claim requires after write(path, off, <one byte>) returned 1, of the
\* inode before and after the call
WriteOutcome(path, off, old, new) ==
    /\ op_read(path, off, disk') = {ReadResult("OK", Payload)}
    /\ new.size = SzMax(old.size, EndOf(off))
    /\ new.block_count = CeilBlocks(new.size)
    /\ BitSet(g_bm', new.ino)
    /\ \A i \in 1..Min(new.block_count, BWFS_DIRECT_BLOCKS) : BitSet(g_bm', new.blocks[i])
    /\ \A o \in ReadOffsets \ {off} :
           FileByte(path, o, disk) = Payload => FileByte(path, o, disk') = Payload

\* C18 -- write/read round trip: after write(path, off, data) on a regular file
\* returned len(data), read(path, off, len(data)) returns exactly data, the inode
\* has size = max(old size, off + len(data)) and block_count = ceil(size / 125000),
\* the bits of the inode block and of every data block are set, and the bytes of
\* the file outside the range that had been written earlier are unchanged.
C18_WriteReadRoundTrip ==
    [][(last'.op = "write" /\ last'.rc = "OK") =>
          WriteOutcome(last'.path[1], last'.path[2],
                       bwfs_resolve(last'.path[1], disk).inode,
                       bwfs_resolve(last'.path[1], disk').inode)]_vars

(***************************************************************************)
(* op_statfs (src/fuse/bwfs.c) on the mounted instance                     *)
(***************************************************************************)
RECURSIVE UsedSum(_, _, _)
\* the for loop of op_statfs from block i on: used += bwfs_bm_test(&g_bm, i)
UsedSum(bm, total, i) ==
    IF i >= total THEN 0 ELSE bwfs_bm_test(bm, i) + UsedSum(bm, total, i + 1)

\* op_statfs once the loop left used: total - used is computed in uint32_t
StatfsOf(total, used) ==
    [f_blocks |-> total, f_bfree |-> U32(0, total - used), f_bavail |-> U32(0, total - used)]

op_statfs(sb, bm) == StatfsOf(sb.total_blocks, UsedSum(bm, sb.total_blocks, 0))

StatCall(st) == [op |-> "statfs", f_blocks |-> st.f_blocks, f_bfree |-> st.f_bfree,
                 f_bavail |-> st.f_bavail]

Statfs ==
    /\ alive
    /\ nops < MaxOps
    /\ nops' = nops + 1
    /\ acall' = StatCall(op_statfs(g_sb, g_bm))
    /\ UNCHANGED <<disk, g_sb, g_bm, alive, last, abm, mk, ck, fw, io, th>>

StatNext == TreeNext \/ Statfs
StatSpec == Init /\ [][StatNext]_vars

\* the number of free blocks of a bitmap: total_blocks minus the bits set
FreeCount(bm) ==
    bm.total_blocks - Cardinality({b \in 0..(bm.total_blocks - 1) : BitSet(bm, b)})

\* C19 -- statfs free count: for every bitmap state, statfs reports
\* f_blocks = total_blocks and f_bfree = f_bavail = total_blocks minus the number
\* of set bits of the bitmap, never more than total_blocks, never negative or
\* wrapped.
C19_StatfsFreeCount ==
    acall.op = "statfs" =>
        /\ acall.f_blocks = g_sb.total_blocks
        /\ acall.f_bfree = Sz(0, FreeCount(g_bm))
        /\ acall.f_bavail = Sz(0, FreeCount(g_bm))

(***************************************************************************)
(* The checker run on the image the mount leaves after any of its calls    *)
(***************************************************************************)
CheckNext == Next \/ FsckRun \/ FsckAbort
CheckSpec == Init /\ [][CheckNext]_vars

\* the exit status the classification gives a completed run: repaired counts the
\* errors that were repaired, loaded that superblock and bitmap were loaded
Classified(c) ==
    IF ~c.loaded THEN 8
    ELSE IF c.errors_found = 0 THEN 0
    ELSE IF c.repaired = c.errors_found THEN 1
    ELSE 4

\* C20 -- fsck exit classification: a run of fsck that reaches its exit exits 0 iff
\* it found no error, 1 iff it found at least one error and every error it found
\* was repaired, 4 iff at least one error it found was left unrepaired, and 8 iff
\* the superblock or the bitmap could not be loaded.
C20_ExitClassification ==
    (ck.done /\ ck.exit # SIGABRT) => ck.exit = Classified(ck)

(***************************************************************************)
(* The checker run on images of every size the formatter makes from 4      *)
(* blocks on, after create, mkdir, unlink and rmdir calls of the mount     *)
(***************************************************************************)
\* op_init on the formatted image of n blocks
SizedInit ==
    /\ \E n \in 4..TotalBlocks :
          /\ disk = FormattedImage(n)
          /\ g_sb = [total_blocks |-> n, root_inode |-> 2]
          /\ g_bm = BitmapOf(n, {0, 1, 2})
    /\ alive = TRUE
    /\ last = NoOp
    /\ nops = 0
    /\ abm = FormattedBitmap
    /\ acall = NoCall
    /\ mk = NoFormat
    /\ ck = NoCheck /\ fw = NoWalk /\ io = NoBlockFile /\ th = NoThreads

SizedCheckNext == TreeNext \/ FsckRun \/ FsckAbort
SizedCheckSpec == SizedInit /\ [][SizedCheckNext]_vars

\* the bitmap persisted in block 1 of the image d
PersistedBitmap(d) == BitmapRead(g_sb.total_blocks, d)

\* blocks whose persisted bit is set and that no reachable inode is or lists
Leaked(d) ==
    {b \in 2..(g_sb.total_blocks - 1) :
        /\ BitSet(PersistedBitmap(d), b)
        /\ b \notin Reachable(d)
        /\ b \notin LiveData(d)}

\* the number of occupied slots of a directory
EntryCount(dir_inode, d) ==
    IF Loads(dir_inode, d)
    THEN Cardinality({i \in SlotIds : Slot(d[dir_inode.blocks[1]], i).ino # 0})
    ELSE 0

\* the inode held by block i is as the inode store and the directory code leave it
SoundInode(d, i, inode) ==
    /\ inode.ino = i
    /\ inode.block_count <= BWFS_DIRECT_BLOCKS
    /\ \A j \in 1..BWFS_DIRECT_BLOCKS : (inode.blocks[j] # 0) = (j <= inode.block_count)
    /\ IF IsDir(inode)
       THEN inode.size = Sz(0, EntryCount(inode, d) * DirEntrySize)
       ELSE inode.block_count = CeilBlocks(inode.size)

\* the image has no inconsistency other than leaked blocks
SoundButLeaks(d) ==
    /\ BitSet(PersistedBitmap(d), BWFS_SUPERBLOCK_BLK)
    /\ BitSet(PersistedBitmap(d), BWFS_BITMAP_BLK)
    /\ \A i \in Reachable(d) :
           /\ CanRead(d, i)
           /\ BitSet(PersistedBitmap(d), i)
           /\ SoundInode(d, i, InodeOf(d[i]))
    /\ \A b \in LiveData(d) : BitSet(PersistedBitmap(d), b)

\* this step is a run of fsck -y that reached its exit
RepairRun == ~ck.done /\ ck'.done /\ ck'.repair /\ ck'.exit # SIGABRT

\* C21 -- leak repair: on a filesystem whose only inconsistency is a bitmap bit set
\* for a block that no inode references, fsck with -y reports one warning for that
\* block, clears exactly that bit in the persisted bitmap, and exits with code 1.
C21_LeakRepair ==
    [][(RepairRun /\ SoundButLeaks(disk) /\ Cardinality(Leaked(disk)) = 1) =>
          /\ ck'.warnings = 1
          /\ PersistedBitmap(disk').map
                = [b \in DOMAIN PersistedBitmap(disk).map |->
                      PersistedBitmap(disk).map[b] /\ b \notin Leaked(disk)]
          /\ ck'.exit = 1]_vars

(***************************************************************************)
(* The checker's directory walk, one step at a time.  fw.stack holds one   *)
(* frame per active call of check_directory_recursive that has read its    *)
(* directory block: the directory, the inode and the entries it read, the  *)
(* loop index i, entry_count and depth.  fw.ctx is the fsck_context_t,     *)
(* fw.capped records that some call was refused by the depth test.         *)
(***************************************************************************)
MaxDepth == 100       \* the depth beyond which check_directory_recursive refuses

\* the refusal without its fsck_log call
WalkCappedSilent(ctx) == Fail(ctx)

\* check_directory_recursive: depth > 100, logged and refused
WalkCapped(ctx) == Fail(LogError(ctx))

WalkState(pc, ctx, stack, capped) ==
    [pc |-> pc, ctx |-> ctx, stack |-> stack, capped |-> capped]

Frame(dir_ino, dir_inode, entries, depth) ==
    [dir_ino |-> dir_ino, dir_inode |-> dir_inode, entries |-> entries, i |-> 0,
     entry_count |-> 0, depth |-> depth]

\* the caller's statement after the call for child_ino returned: the first call has
\* run_fsck as its caller, every other call returns into the loop, which drops the
\* result and marks the child
WalkReturned(ctx, stack, child_ino) ==
    IF stack = <<>> THEN ctx ELSE InodeFound(ctx, child_ino)

\* check_directory_recursive(ctx, dir_ino, depth) up to the loop, on the inode read
WalkCallDir(ctx, stack, capped, dir_ino, dir_inode, depth) ==
    IF ~IsDir(dir_inode)
    THEN WalkState("walk", WalkReturned(Fail(LogError(ctx)), stack, dir_ino), stack, capped)
    ELSE IF dir_inode.block_count = 0
    THEN WalkState("walk", WalkReturned(Pass(InodeFound(ctx, dir_ino)), stack, dir_ino),
                   stack, capped)
    ELSE IF ~CanRead(ctx.disk, dir_inode.blocks[1])
    THEN WalkState("walk",
                   WalkReturned(Fail(LogError(InodeFound(ctx, dir_ino))), stack, dir_ino),
                   stack, capped)
    ELSE WalkState("walk", [InodeFound(ctx, dir_ino) EXCEPT !.ub = TRUE],
                   Append(stack, Frame(dir_ino, dir_inode,
                                       ctx.disk[dir_inode.blocks[1]], depth)),
                   capped)

\* the call check_directory_recursive(ctx, dir_ino, depth) made with frames stack
WalkCall(ctx, stack, capped, dir_ino, depth) ==
    IF depth > MaxDepth
    THEN WalkState("walk", WalkReturned(WalkCapped(ctx), stack, dir_ino), stack, TRUE)
    ELSE IF ~CanRead(ctx.disk, dir_ino)
    THEN WalkState("walk", WalkReturned(Fail(LogError(ctx)), stack, dir_ino), stack, capped)
    ELSE WalkCallDir(ctx, stack, capped, dir_ino, InodeOf(ctx.disk[dir_ino]), depth)

\* the frames once the loop of the innermost call moves to its next entry
NextEntry(stack, counted) ==
    [stack EXCEPT ![Len(stack)].i = @ + 1, ![Len(stack)].entry_count = @ + counted]

\* the loop body after check_single_inode returned cs for child_ino
WalkChildStep(cs, stack, capped, child_ino, depth) ==
    IF cs.rc # 0 THEN WalkState("walk", cs, stack, capped)
    ELSE IF ~CanRead(cs.disk, child_ino) THEN WalkState("walk", cs, stack, capped)
    ELSE IF IsDir(InodeOf(cs.disk[child_ino]))
    THEN WalkCall(cs, stack, capped, child_ino, depth + 1)
    ELSE WalkState("walk", InodeFound(cs, child_ino), stack, capped)

\* one iteration of the loop of the innermost call f, whose entry is e
WalkEntryStep(ctx, stack, capped, f, e) ==
    IF e.ino = 0 THEN WalkState("walk", ctx, NextEntry(stack, 0), capped)
    ELSE IF e.ino >= ctx.sb.total_blocks
    THEN WalkState("walk", LogError(ctx), NextEntry(stack, 1), capped)
    ELSE WalkChildStep(check_single_inode(ctx, e.ino), NextEntry(stack, 1), capped,
                       e.ino, f.depth)

\* the statements of the innermost call f after its loop, and its return
WalkLeaveStep(ctx, stack, capped, f) ==
    WalkState("walk",
              WalkReturned(WalkEnd([ctx EXCEPT !.entry_count = f.entry_count], f.dir_inode),
                           SubSeq(stack, 1, Len(stack) - 1), f.dir_ino),
              SubSeq(stack, 1, Len(stack) - 1), capped)

\* run_fsck up to the call of check_directory_recursive for the root
WalkPrefix(ctx) == IF ctx.rc # 0 THEN ctx ELSE check_bitmap(ctx)
WalkRoot(ctx) ==
    IF ctx.rc # 0 THEN WalkState("walk", ctx, <<>>, FALSE)
    ELSE WalkCall(ctx, <<>>, FALSE, ctx.sb.root_inode, 0)

WalkTo(w) ==
    /\ fw' = w
    /\ disk' = w.ctx.disk
    /\ UNCHANGED <<g_sb, g_bm, alive, last, nops, abm, acall, mk, ck, io, th>>

\* fsck_bwfs [-y] <dir>: run_fsck reaches the walk
WalkBegin ==
    /\ fw.pc = "start"
    /\ \E repair \in BOOLEAN :
          WalkTo(WalkRoot(WalkPrefix(check_superblock(FsckContext(disk, repair)))))

WalkEntry ==
    /\ fw.pc = "walk"
    /\ fw.stack # <<>>
    /\ fw.stack[Len(fw.stack)].i < TrackedSlots
    /\ WalkTo(WalkEntryStep(fw.ctx, fw.stack, fw.capped, fw.stack[Len(fw.stack)],
                            Slot(fw.stack[Len(fw.stack)].entries,
                                 fw.stack[Len(fw.stack)].i)))

WalkLeave ==
    /\ fw.pc = "walk"
    /\ fw.stack # <<>>
    /\ fw.stack[Len(fw.stack)].i >= TrackedSlots
    /\ WalkTo(WalkLeaveStep(fw.ctx, fw.stack, fw.capped, fw.stack[Len(fw.stack)]))

\* free(entries) after the read overran the buffer: the allocator aborts the run
WalkAbort ==
    /\ fw.pc = "walk"
    /\ fw.stack # <<>>
    /\ fw.stack[Len(fw.stack)].i >= TrackedSlots
    /\ fw' = [fw EXCEPT !.pc = "done"]
    /\ ck' = [NoCheck EXCEPT !.done = TRUE, !.exit = SIGABRT, !.repair = fw.ctx.repair]
    /\ UNCHANGED <<disk, g_sb, g_bm, alive, last, nops, abm, acall, mk, io, th>>

\* the walk returned to run_fsck: the remaining steps, then main's exit status
WalkFinished(ctx) ==
    /\ fw' = [fw EXCEPT !.pc = "done", !.ctx = ctx]
    /\ ck' = Checked(ctx, ExitCode(ctx))
    /\ disk' = ctx.disk
    /\ UNCHANGED <<g_sb, g_bm, alive, last, nops, abm, acall, mk, io, th>>

WalkFinish ==
    /\ fw.pc = "walk"
    /\ fw.stack = <<>>
    /\ WalkFinished(FsckConsistency(fw.ctx))

\* images whose directory graph is a tree, and images with an entry that names the
\* directory holding it or an ancestor of it
WithChild(c) == bwfs_dir_add(c.bm, FALSE, RootInode, c.disk, "a", c.ret)
ChildImage == WithChild(bwfs_create_inode(FormattedBitmap, TRUE, FormattedDisk))
LinkedFrom(a, target) ==
    bwfs_dir_add(a.bm, FALSE, InodeOf(a.disk[3]), a.disk, "b", target).disk
RootLoopImage == bwfs_dir_add(FormattedBitmap, FALSE, RootInode, FormattedDisk, "a", 2).disk
WalkImages ==
    {FormattedDisk, ChildImage.disk, RootLoopImage} \cup
    {LinkedFrom(ChildImage, target) : target \in {2, 3, TotalBlocks - 1, TotalBlocks}}

WalkInit ==
    /\ disk \in WalkImages
    /\ g_sb = [total_blocks |-> TotalBlocks, root_inode |-> 2]
    /\ g_bm = FormattedBitmap
    /\ alive = FALSE
    /\ last = NoOp
    /\ nops = 0
    /\ abm = FormattedBitmap
    /\ acall = NoCall
    /\ mk = NoFormat
    /\ ck = NoCheck
    /\ fw = [NoWalk EXCEPT !.pc = "start"] /\ io = NoBlockFile /\ th = NoThreads

WalkNext == WalkBegin \/ WalkEntry \/ WalkLeave \/ WalkAbort \/ WalkFinish
\* the checker is a sequential process that keeps running until it exits
WalkSpec == WalkInit /\ [][WalkNext]_vars /\ WF_vars(WalkNext)

Crashed(op, path, image) ==
    /\ nops < MaxOps
    /\ nops' = nops + 1
    /\ disk' = image
    /\ alive' = FALSE
    /\ last' = [NoOp EXCEPT !.op = op, !.path = path, !.rc = "crash"]
    /\ UNCHANGED <<g_sb, g_bm, abm, acall, mk, ck, fw, io, th>>

\* op_unlink: both bwfs_free_blocks calls and bwfs_write_bitmap are done,
\* bwfs_dir_remove has not yet stored the parent's entries
UnlinkBitmapWritten(ino, file) ==
    bwfs_write_bitmap(bwfs_free_blocks(bwfs_free_blocks(g_bm, ino, 1),
                                       file.blocks[1], file.block_count), disk)
UnlinkCrashAt(path, ino) ==
    /\ ino # UINT32_MAX
    /\ CanRead(disk, ino)
    /\ Crashed("unlink", path, UnlinkBitmapWritten(ino, InodeOf(disk[ino])))
UnlinkCrashIn(path, r) ==
    /\ r.rc = BWFS_OK
    /\ UnlinkCrashAt(path, bwfs_dir_lookup(r.inode, disk, NameOf(path)))
UnlinkCrash ==
    /\ alive
    /\ \E p \in Paths : UnlinkCrashIn(p, bwfs_resolve(ParentOf(p), disk))

\* op_rmdir at the same point
RmdirBitmapWritten(ino, dir) ==
    bwfs_write_bitmap(bwfs_free_blocks(bwfs_free_blocks(g_bm, dir.blocks[1],
                                                        dir.block_count),
                                       ino, 1), disk)
RmdirCrashOn(path, ino, dir) ==
    /\ IsDir(dir)
    /\ dir.size = SzZero
    /\ Crashed("rmdir", path, RmdirBitmapWritten(ino, dir))
RmdirCrashAt(path, ino) ==
    /\ ino # UINT32_MAX
    /\ CanRead(disk, ino)
    /\ RmdirCrashOn(path, ino, InodeOf(disk[ino]))
RmdirCrashIn(path, r) ==
    /\ r.rc = BWFS_OK
    /\ RmdirCrashAt(path, bwfs_dir_lookup(r.inode, disk, NameOf(path)))
RmdirCrash ==
    /\ alive
    /\ \E p \in Paths : RmdirCrashIn(p, bwfs_resolve(ParentOf(p), disk))

\* op_create and op_mkdir inside bwfs_create_inode: the inode block is written,
\* the bitmap is not
CreateInodeWritten(a, is_dir) == bwfs_write_inode(NewInode(a.ret, is_dir), disk)
CreateCrashAt(op, path, a, is_dir) ==
    /\ a.ret # UINT32_MAX
    /\ Crashed(op, path, CreateInodeWritten(a, is_dir))
CreateCrashIn(op, path, r, is_dir) ==
    /\ r.rc = BWFS_OK
    /\ is_dir => IsDir(r.inode)
    /\ CreateCrashAt(op, path, bwfs_alloc_blocks(g_bm, 1), is_dir)
CreateCrash ==
    /\ alive
    /\ \E p \in Paths :
          \/ CreateCrashIn("create", p, bwfs_resolve(ParentOf(p), disk), FALSE)
          \/ CreateCrashIn("mkdir", p, bwfs_resolve(ParentOf(p), disk), TRUE)

CrashNext == TreeNext \/ UnlinkCrash \/ RmdirCrash \/ CreateCrash
CrashSpec == Init /\ [][CrashNext]_vars

\* every inode an entry reachable from the root names, and every data block such an
\* inode lists, has its bit set in the bitmap held by block 1
NoDangling(d) ==
    \A b \in Reachable(d) \cup LiveData(d) : BitSet(PersistedBitmap(d), b)

\* C23: an operation interrupted between two of its block writes leaves an image
\* without dangling references, when the image it started from had none
C23_CrashSafety ==
    [][(last'.rc = "crash" /\ NoDangling(disk)) => NoDangling(disk')]_vars

(***************************************************************************)
(* bwfs_inode_resize called on the inode of a file, to grow and to shrink  *)
(* it, and the process stopped between its two block writes                *)
(***************************************************************************)
\* sizes bwfs_inode_resize is called with: empty, one block, three blocks
ResizeSizes == {SzZero, Sz(1, 0), Sz(3, 0)}

\* what the caller of bwfs_inode_resize gets back, with the call recorded
ResizeOut(r, new_size, rz) ==
    [Out(RcOf(rz.rc), rz.bm, rz.disk, r.ub, disk, rz.oob)
     EXCEPT !.rrc = rz.rc, !.new_size = new_size, !.rino = rz.inode]

\* a caller that resolved path to r and resizes that inode
ResizeOf(r, new_size) ==
    IF r.rc # BWFS_OK \/ IsDir(r.inode) THEN Out("ENOENT", g_bm, disk, r.ub, disk, FALSE)
    ELSE ResizeOut(r, new_size, bwfs_inode_resize(g_bm, r.inode, new_size, disk))

ResizeCall ==
    /\ alive
    /\ \E p \in Paths, s \in ResizeSizes :
          Return("resize", <<p, s>>, ResizeOf(bwfs_resolve(p, disk), s))

\* bwfs_inode_resize left g and wrote the bitmap; bwfs_write_inode has not run
ResizeBitmapWritten(g) == bwfs_write_bitmap(g.bm, disk)
ResizeCrashAt(p, s, r, g) ==
    /\ g.ok
    /\ Crashed("resize", <<p, s, r.inode.ino>>, ResizeBitmapWritten(g))
ResizeCrashIn(p, s, r) ==
    /\ r.rc = BWFS_OK
    /\ ~IsDir(r.inode)
    /\ ReqBlocks(s) <= BWFS_DIRECT_BLOCKS
    /\ ResizeCrashAt(p, s, r, ResizeBlocks(g_bm, r.inode, r.inode.block_count, ReqBlocks(s)))
ResizeCrash ==
    /\ alive
    /\ \E p \in Paths, s \in ResizeSizes : ResizeCrashIn(p, s, bwfs_resolve(p, disk))

ResizeResults ==
    {op_create(p) : p \in Paths} \cup {ResizeOf(bwfs_resolve(p, disk), s) :
                                          p \in Paths, s \in ResizeSizes}
\* the process is aborted after the heap overrun of one of these calls
ResizeAbort ==
    /\ alive
    /\ nops < MaxOps
    /\ nops' = nops + 1
    /\ \E r \in ResizeResults :
          /\ r.ub \/ r.oob
          /\ disk' = IF r.ub THEN r.adisk ELSE r.disk
    /\ alive' = FALSE
    /\ last' = [NoOp EXCEPT !.op = "abort", !.rc = "abort"]
    /\ UNCHANGED <<g_sb, g_bm, abm, acall, mk, ck, fw, io, th>>

ResizeNext == Create \/ ResizeCall \/ ResizeCrash \/ ResizeAbort
ResizeSpec == Init /\ [][ResizeNext]_vars

\* every block the inode held by block ino lists has its bit set in block 1
ListedBlocksSet(d, ino) ==
    \A b \in UsedPointers(InodeOf(d[ino])) : BitSet(PersistedBitmap(d), b)

\* this step stops bwfs_inode_resize between bwfs_write_bitmap and bwfs_write_inode
ResizeInterrupted == last'.op = "resize" /\ last'.rc = "crash"

\* C24: between the bitmap write and the inode write of bwfs_inode_resize the
\* persisted inode lists no block whose persisted bit is clear, when that held
\* before the call
C24_ResizeOrder ==
    [][(ResizeInterrupted /\ ListedBlocksSet(disk, last'.path[3])) =>
          ListedBlocksSet(disk', last'.path[3])]_vars

\* bits 0 and 1 of a bitmap
ReservedBits(bm) == BitSet(bm, BWFS_SUPERBLOCK_BLK) /\ BitSet(bm, BWFS_BITMAP_BLK)

\* C25: once the formatter has succeeded, and on the mounted or checked image after
\* any calls, bits 0 and 1 of the persisted bitmap are set; the mount's bitmap has
\* them set and bwfs_alloc_blocks on it returns neither block 0 nor block 1
C25_ReservedBlocks ==
    /\ mk.exit = "EXIT_SUCCESS" => ReservedBits(BitmapRead(mk.total_blocks, disk))
    /\ mk.pc = "off" =>
          /\ ReservedBits(PersistedBitmap(disk))
          /\ ReservedBits(g_bm)
          /\ \A count \in 0..3 : bwfs_alloc_blocks(g_bm, count).ret \notin {0, 1}

(***************************************************************************)
(* bwfs_resolve on path strings.  A path is the sequence of its            *)
(* characters; strtok_r(buf + 1, "/", &save) cuts it into the maximal runs *)
(* of characters other than '/'.                                           *)
(***************************************************************************)
RawPaths ==
    {<<"/">>, <<"/", "a">>, <<"/", "b">>, <<"/", "a", "/">>, <<"/", "/", "a">>,
     <<"/", "a", "/", "b">>, <<"/", "a", "/", "/", "b">>, <<"/", "b", "/", "a", "/">>}

RECURSIVE Tokens(_, _, _, _)
\* the tokens strtok_r hands out from character i on; cur is the token being read
Tokens(s, i, cur, acc) ==
    IF i > Len(s) THEN (IF cur = <<>> THEN acc ELSE Append(acc, cur))
    ELSE IF s[i] = "/"
    THEN Tokens(s, i + 1, <<>>, IF cur = <<>> THEN acc ELSE Append(acc, cur))
    ELSE Tokens(s, i + 1, Append(cur, s[i]), acc)

\* the name a token spells: the names of the model are one character long
TokenName(t) == IF Len(t) = 1 THEN t[1] ELSE Junk
TokenNames(ts) == [k \in 1..Len(ts) |-> TokenName(ts[k])]

\* bwfs_resolve(path, out) on a path string: [rc, inode, ub]
ResolvePath(s, d) == bwfs_resolve(TokenNames(Tokens(s, 2, <<>>, <<>>)), d)

\* what a caller of bwfs_resolve gets back, with the call recorded
ResolveOut(r) ==
    [Out(r.rc, g_bm, disk, r.ub, disk, FALSE) EXCEPT !.rino = r.inode]

ResolveCall ==
    /\ alive
    /\ \E s \in RawPaths : Return("resolve", s, ResolveOut(ResolvePath(s, disk)))

\* the process is aborted after the heap overrun of a lookup made by bwfs_resolve
ResolveAbort ==
    /\ alive
    /\ nops < MaxOps
    /\ nops' = nops + 1
    /\ \E s \in RawPaths : ResolvePath(s, disk).ub
    /\ alive' = FALSE
    /\ last' = [NoOp EXCEPT !.op = "abort", !.rc = "abort"]
    /\ UNCHANGED <<disk, g_sb, g_bm, abm, acall, mk, ck, fw, io, th>>

PathNext == Create \/ Mkdir \/ ResolveCall \/ ResolveAbort \/ TreeAbort
PathSpec == Init /\ [][PathNext]_vars

\* the components of a path string: the text between slashes that is not empty
Components(s) == Tokens(s, 2, <<>>, <<>>)

RECURSIVE Resolution(_, _, _)
\* what the path resolver is to answer for the components toks from inode cur on
Resolution(cur, toks, d) ==
    IF toks = <<>> THEN [rc |-> "OK", inode |-> cur]
    ELSE IF ~IsDir(cur) THEN [rc |-> "ENOTDIR", inode |-> cur]
    ELSE IF ~NameHeld(cur, d, TokenName(Head(toks))) THEN [rc |-> "ENOENT", inode |-> cur]
    ELSE Resolution(InodeOf(d[bwfs_dir_lookup(cur, d, TokenName(Head(toks)))]),
                    Tail(toks), d)

Resolved(r, want) ==
    /\ r.rc = want.rc
    /\ want.rc = "OK" => r.rino = want.inode

\* C26: resolving a path skips empty components; a component met on an inode that
\* is not a directory fails with NotDir, a component absent from its directory
\* with NotFound; otherwise the inode of the last component is returned
C26_PathResolution ==
    [][last'.op = "resolve" =>
          Resolved(last', Resolution(InodeOf(disk[g_sb.root_inode]),
                                     Components(last'.path), disk))]_vars

\* C27: after bwfs_alloc_blocks(B, count) succeeded with start, the call
\* bwfs_free_blocks(B, start, count) leaves the bitmap equal to B as it was before
\* the allocation
C27_FreeAllocRoundTrip == acall.op = "free" => abm = acall.pre

C27_Witness ==
    /\ acall.op = "free"
    /\ acall.count >= 2
    /\ acall.ret > 0
    /\ abm = acall.pre
    /\ \E b \in DOMAIN abm.map : abm.map[b]

(***************************************************************************)
(* The block codec (src/util/bmp_io.c, the one the Makefile builds, and    *)
(* src/util/png_io.c).  A block of the harness is CodecBlockBytes bytes    *)
(* long in place of 125000; the bmp file holds the bytes, the png file     *)
(* one 8-bit sample per bit.  The png container itself (stb_image) is      *)
(* taken to store and return the samples unchanged.                        *)
(***************************************************************************)
CodecBlockBytes == 2      \* bytes of a block in the codec harness
\* byte values the longer buffers are drawn from
SampleBytes == {0, 1, 127, 128, 170, 255}
\* samples of a png file that another encoder produced
SamplePixels == {0, 127, 128, 255}

\* bits_to_pixels for one byte: the 8 samples of byte_val, bit 7 first
bits_to_pixels(byte_val) ==
    [bit_pos \in 0..7 |-> IF (byte_val \div Pow2(7 - bit_pos)) % 2 = 1 THEN 255 ELSE 0]

RECURSIVE PixelByte(_, _, _)
\* pixels_to_bits for one byte: the loop over bit_pos from bit_pos on
PixelByte(px, bit_pos, byte_val) ==
    IF bit_pos > 7 THEN byte_val
    ELSE PixelByte(px, bit_pos + 1,
                   IF px[bit_pos] > 127 THEN byte_val + Pow2(7 - bit_pos) ELSE byte_val)
pixels_to_bits(px) == PixelByte(px, 0, 0)

\* calloc(BWFS_BLOCK_SIZE_BYTES, 1); memcpy(full_data, data, len), and the bmp
\* writer's fwrite of the data followed by the zero padding
FullData(data, len) ==
    [j \in 1..CodecBlockBytes |-> IF j <= len THEN data[j] ELSE 0]

\* util_write_block(fs_dir, block_id, data, len): [rc, file]
util_write_block(codec, data, len) ==
    IF len > CodecBlockBytes THEN [rc |-> -1, file |-> <<>>]
    ELSE IF codec = "bmp" THEN [rc |-> 0, file |-> FullData(data, len)]
    ELSE [rc |-> 0,
          file |-> [j \in 1..CodecBlockBytes |-> bits_to_pixels(FullData(data, len)[j])]]

\* the bytes of the whole block as util_read_block decodes them from file
BitsData(codec, file) ==
    IF codec = "bmp" THEN file
    ELSE [j \in 1..CodecBlockBytes |-> pixels_to_bits(file[j])]

\* util_read_block(fs_dir, block_id, out, len): [rc, out]
util_read_block(codec, file, len) ==
    IF len > CodecBlockBytes THEN [rc |-> -1, out |-> <<>>]
    ELSE IF Len(file) # CodecBlockBytes THEN [rc |-> -1, out |-> <<>>]
    ELSE [rc |-> 0, out |-> SubSeq(BitsData(codec, file), 1, len)]

RECURSIVE SeqsUpTo(_, _)
\* the sequences over S of length at most n
SeqsUpTo(S, n) ==
    IF n = 0 THEN {<<>>}
    ELSE SeqsUpTo(S, n - 1) \cup
         {Append(q, v) : q \in {r \in SeqsUpTo(S, n - 1) : Len(r) = n - 1}, v \in S}

\* the buffers written: every one-byte buffer, and the buffers over SampleBytes of
\* every length up to the block size
CodecBuffers == SeqsUpTo(0..255, 1) \cup SeqsUpTo(SampleBytes, CodecBlockBytes)

\* png files of another encoder: every byte has the samples hi at the positions of
\* set and lo elsewhere
ForeignFiles ==
    {[j \in 1..CodecBlockBytes |-> [bit_pos \in 0..7 |-> IF bit_pos \in set THEN hi ELSE lo]] :
        set \in {{}, {0}, {7}, {0, 7}, 0..7}, hi \in {128, 255}, lo \in {0, 127}}

CodecInit ==
    /\ \/ \E codec \in {"bmp", "png"}, buf \in CodecBuffers :
             io = [NoBlockFile EXCEPT !.pc = "buffer", !.codec = codec, !.buf = buf]
       \/ \E file \in ForeignFiles :
             io = [NoBlockFile EXCEPT !.pc = "foreign", !.codec = "png", !.file = file]
    /\ disk = FormattedDisk
    /\ g_sb = [total_blocks |-> TotalBlocks, root_inode |-> 2]
    /\ g_bm = FormattedBitmap
    /\ alive = FALSE
    /\ last = NoOp
    /\ nops = 0
    /\ abm = FormattedBitmap
    /\ acall = NoCall
    /\ mk = NoFormat
    /\ ck = NoCheck /\ th = NoThreads
    /\ fw = NoWalk

CodecTo(next) ==
    /\ io' = next
    /\ UNCHANGED <<abm, acall, disk, g_sb, g_bm, alive, last, nops, mk, ck, fw, th>>

\* util_write_block(dir, blk, buf, L) with L the length of buf
CodecWrite ==
    /\ io.pc = "buffer"
    /\ CodecTo([io EXCEPT !.pc = "written",
                          !.rc = util_write_block(io.codec, io.buf, Len(io.buf)).rc,
                          !.file = util_write_block(io.codec, io.buf, Len(io.buf)).file])

\* util_read_block(dir, blk, out, len) of the L bytes written, or of the whole block
CodecRead ==
    /\ io.pc = "written"
    /\ io.rc = 0
    /\ \E len \in {Len(io.buf), CodecBlockBytes} :
          CodecTo([io EXCEPT !.pc = "read", !.len = len,
                             !.rc = util_read_block(io.codec, io.file, len).rc,
                             !.out = util_read_block(io.codec, io.file, len).out])

\* util_read_block of the whole block of a png file another encoder wrote
CodecReadForeign ==
    /\ io.pc = "foreign"
    /\ CodecTo([io EXCEPT !.pc = "decoded", !.len = CodecBlockBytes,
                          !.rc = util_read_block("png", io.file, CodecBlockBytes).rc,
                          !.out = util_read_block("png", io.file, CodecBlockBytes).out])

CodecNext == CodecWrite \/ CodecRead \/ CodecReadForeign
CodecSpec == CodecInit /\ [][CodecNext]_vars

\* bit k of a byte, counted from the most significant bit (k = 0) down
BitMsbFirst(byte_val, k) == (byte_val \div Pow2(7 - k)) % 2

BlocksInUse(d) == {BWFS_SUPERBLOCK_BLK, BWFS_BITMAP_BLK} \cup Reachable(d) \cup LiveData(d)

\* C29: when a walk that found no error has finished, block_used holds exactly the
\* blocks 0 and 1, the inode blocks of the root and of every inode reached from it,
\* and the data blocks listed in those inodes, the root directory's included
C29_ObservedUsage ==
    (fw.pc = "done" /\ ck.exit # SIGABRT /\ ck.errors_found = 0) =>
        fw.ctx.block_used = BlocksInUse(disk)

\* the blocks of image d that hold a reachable inode or its data
LiveBlocks(d) == Reachable(d) \cup LiveData(d)

\* C30: a repairing run never clears, in the bitmap held by block 1, the bit of the
\* inode block or of a data block of a reachable inode; run on an image that is
\* sound and has no leaked block it leaves block 1 as it was
C30_RepairIsSafe ==
    [][RepairRun =>
          /\ \A b \in LiveBlocks(disk) :
                BitSet(PersistedBitmap(disk), b) => BitSet(PersistedBitmap(disk'), b)
          /\ (SoundButLeaks(disk) /\ Leaked(disk) = {}) =>
                disk'[BWFS_BITMAP_BLK] = disk[BWFS_BITMAP_BLK]]_vars

\* the size of the directory held by block 2 against the occupied slots of its block
SizeMatchesEntries(d) ==
    /\ DirInode(d).size = Sz(0, EntryCount(DirInode(d), d) * DirEntrySize)
    /\ (DirInode(d).size # SzZero) = HasEntries(DirInode(d), d)

\* C31: after any sequence of bwfs_dir_add and bwfs_dir_remove calls with non-zero
\* child inode numbers, successful or not, the persisted size of the directory inode
\* is 260 times the number of occupied slots of its block, so size > 0 holds exactly
\* when the directory has an entry
C31_DirectorySize == SizeMatchesEntries(disk)

C31_Witness ==
    /\ acall.op = "dir_remove"
    /\ acall.rc = BWFS_OK
    /\ EntryCount(DirInode(disk), disk) = 2
    /\ DirInode(disk).size = Sz(0, 2 * DirEntrySize)

(***************************************************************************)
(* Inode harness: bwfs_create_inode called on the image and bitmap of a    *)
(* mounted file system (src/core/inode.c), the way op_create and op_mkdir  *)
(* call it; single blocks are released the way op_unlink releases them,    *)
(* so that the free runs the allocator chooses among differ.               *)
(***************************************************************************)
InodeInit ==
    /\ \E n \in 3..TotalBlocks :
          /\ disk = FormattedImage(n)
          /\ g_sb = [total_blocks |-> n, root_inode |-> 2]
          /\ g_bm = BitmapOf(n, {0, 1, 2})
    /\ alive = TRUE
    /\ last = NoOp
    /\ nops = 0
    /\ abm = FormattedBitmap
    /\ acall = NoCall
    /\ mk = NoFormat
    /\ ck = NoCheck /\ fw = NoWalk /\ io = NoBlockFile /\ th = NoThreads

\* the call returned r; pre and image are the bitmap and the blocks before it
InodeReturn(is_dir, r, pre, image) ==
    /\ acall' = [op |-> "create_inode", is_dir |-> is_dir, ret |-> r.ret,
                 pre |-> pre, image |-> image]
    /\ g_bm' = r.bm
    /\ disk' = r.disk
    /\ UNCHANGED <<g_sb, alive, last, nops, abm, mk, ck, fw, io, th>>

\* bwfs_create_inode(&g_bm, is_dir, g_dir)
InodeCreate ==
    \E is_dir \in BOOLEAN :
        InodeReturn(is_dir, bwfs_create_inode(g_bm, is_dir, disk), g_bm, disk)

\* bwfs_free_blocks(&g_bm, b, 1); bwfs_write_bitmap(&g_bm, g_dir) on an inode block
InodeRelease ==
    /\ \E b \in 3..(g_sb.total_blocks - 1) :
          /\ g_bm.map[b]
          /\ g_bm' = bwfs_free_blocks(g_bm, b, 1)
          /\ disk' = bwfs_write_bitmap(bwfs_free_blocks(g_bm, b, 1), disk)
          /\ acall' = [op |-> "release", is_dir |-> FALSE, ret |-> b,
                       pre |-> g_bm, image |-> disk]
    /\ UNCHANGED <<g_sb, alive, last, nops, abm, mk, ck, fw, io, th>>

InodeNext == InodeCreate \/ InodeRelease

InodeSpec == InodeInit /\ [][InodeNext]_vars

\* C32: on a bitmap with a free block bwfs_create_inode returns the block the
\* worst-fit allocator chooses, sets that bit and no other in memory and in the
\* persisted block 1, and persists in that block an inode with ino = the block index,
\* size 0, block_count 0, all block pointers 0 and the directory flag equal to is_dir,
\* leaving every other block as it was; on a bitmap without a free block it returns
\* UINT32_MAX and changes neither the bitmap nor any block
C32_InodeCreation ==
    acall.op = "create_inode" =>
        IF LongestFreeRun(acall.pre) >= 1
        THEN /\ acall.ret = WorstFitStart(acall.pre)
             /\ g_bm.total_blocks = acall.pre.total_blocks
             /\ \A i \in DOMAIN acall.pre.map :
                   g_bm.map[i] = (acall.pre.map[i] \/ i = acall.ret)
             /\ BitmapRead(g_sb.total_blocks, disk) = g_bm
             /\ DOMAIN disk = DOMAIN acall.image
             /\ \A b \in DOMAIN disk \ {BWFS_BITMAP_BLK, acall.ret} :
                   disk[b] = acall.image[b]
             /\ InodeOf(disk[acall.ret]).ino = acall.ret
             /\ InodeOf(disk[acall.ret]).size = SzZero
             /\ InodeOf(disk[acall.ret]).block_count = 0
             /\ \A k \in 1..BWFS_DIRECT_BLOCKS : InodeOf(disk[acall.ret]).blocks[k] = 0
             /\ IsDir(InodeOf(disk[acall.ret])) = acall.is_dir
        ELSE /\ acall.ret = UINT32_MAX
             /\ g_bm = acall.pre
             /\ disk = acall.image

\* an inode made in the longer of two free runs, over the block of a released inode
C32_Witness ==
    /\ acall.op = "create_inode"
    /\ acall.is_dir
    /\ \E b \in 3..(g_sb.total_blocks - 1) :
          /\ ~acall.pre.map[b] /\ b < acall.ret /\ ~g_bm.map[b]
    /\ acall.ret = WorstFitStart(acall.pre)
    /\ acall.image[acall.ret] # ZeroBlock
    /\ InodeOf(disk[acall.ret]) = NewInode(acall.ret, TRUE)
    /\ BitmapRead(g_sb.total_blocks, disk) = g_bm

\* the call on a bitmap without a free block
C32_FullWitness ==
    /\ acall.op = "create_inode"
    /\ LongestFreeRun(acall.pre) = 0
    /\ acall.ret = UINT32_MAX

\* C33: for every bitmap B, bwfs_alloc_blocks(B, 0) returns UINT32_MAX, never a block
\* index, and leaves B unchanged
C33_ZeroCount ==
    (acall.op = "alloc" /\ acall.count = 0)
    => (acall.ret = UINT32_MAX /\ abm = acall.pre)

(***************************************************************************)
(* The checker run on images whose file inode holds block pointers of      *)
(* every kind: zero, the reserved blocks, data blocks, and indexes at and  *)
(* past total_blocks (check_single_inode, src/cli/mkfs_bwfs.c).            *)
(***************************************************************************)
\* values of blocks[0] and blocks[1] of the file inode
BlockPointers == 0..(TotalBlocks + 1)

\* the formatted image with the regular file /a
FileImage == WithChild(bwfs_create_inode(FormattedBitmap, FALSE, FormattedDisk))

\* the inode of /a with blocks[0] = p, blocks[1] = q and block_count = c
PointerInode(base, p, q, c) ==
    [InodeOf(base.disk[3]) EXCEPT !.blocks = [NoBlocks EXCEPT ![1] = p, ![2] = q],
                                  !.block_count = c]

\* the bitmap with the bits of the pointers that are inside it set as well
PointerBitmap(bm, p, q) ==
    [bm EXCEPT !.map = [i \in DOMAIN bm.map |->
                           bm.map[i] \/ (i \in {p, q} /\ i < bm.total_blocks)]]

PointerImage(base, p, q, c) ==
    bwfs_write_bitmap(PointerBitmap(base.bm, p, q),
                      bwfs_write_inode(PointerInode(base, p, q, c), base.disk))

RangeInit ==
    /\ \E p \in BlockPointers, q \in BlockPointers, c \in 0..2 :
          /\ disk = PointerImage(FileImage, p, q, c)
          /\ acall = [op |-> "fsck_image", inode |-> PointerInode(FileImage, p, q, c)]
    /\ g_sb = [total_blocks |-> TotalBlocks, root_inode |-> 2]
    /\ g_bm = FormattedBitmap
    /\ alive = TRUE
    /\ last = NoOp
    /\ nops = 0
    /\ abm = FormattedBitmap
    /\ mk = NoFormat
    /\ ck = NoCheck /\ fw = NoWalk /\ io = NoBlockFile /\ th = NoThreads

RangeNext == FsckRun \/ FsckAbort

RangeSpec == RangeInit /\ [][RangeNext]_vars

\* one of the block_count used pointers of the inode is below 2 or not below n
PointerOutOfRange(inode, n) ==
    \E k \in 1..inode.block_count : inode.blocks[k] < 2 \/ inode.blocks[k] >= n

\* C34: for every file inode the walk reaches, a run of the checker that returns
\* has reported an error when one of the inode's used block pointers is smaller
\* than 2 or not smaller than total_blocks
C34_PointerRange ==
    (ck.done /\ ck.exit # SIGABRT /\ acall.op = "fsck_image"
        /\ PointerOutOfRange(acall.inode, g_sb.total_blocks))
    => ck.errors_found >= 1

\* what the claim requires of a rename(from, to) that returned an error: the source
\* entry is still there, and the directory is as it was when the target name existed
RenameFailure(from, to) ==
    /\ bwfs_resolve(from, disk).rc = BWFS_OK =>
          /\ bwfs_resolve(from, disk').rc = BWFS_OK
          /\ bwfs_resolve(from, disk').inode.ino = bwfs_resolve(from, disk).inode.ino
    /\ (ParentOf(from) = ParentOf(to) /\ bwfs_resolve(from, disk).rc = BWFS_OK
            /\ bwfs_resolve(to, disk).rc = BWFS_OK)
          => disk' = disk

\* C35: a same-directory rename(from, to) whose target name exists either succeeds or
\* returns an error and leaves the directory unchanged; a rename that returns an
\* error never removes the source entry
C35_RenameAtomic ==
    [][(last'.op = "rename" /\ last'.rc \notin {"OK", "abort"})
          => RenameFailure(last'.path[1], last'.path[2])]_vars

\* offsets the file is read back at: the first and the last byte of blocks 0, 1, 2
BlockEnds == ReadOffsets \cup {Sz(k, 0) : k \in 0..2}

\* every byte a read of path hands back on the image d, other than the one at off,
\* is zero
ReadsZeroBut(path, off, d) ==
    \A o \in BlockEnds \ {off} :
        \A res \in op_read(path, o, d) : res.rc = "OK" => res.data = 0

\* path names a regular file that has no byte and no block: no write has reached it
NeverWritten(path, d) ==
    /\ bwfs_resolve(path, d).rc = BWFS_OK
    /\ ~IsDir(bwfs_resolve(path, d).inode)
    /\ bwfs_resolve(path, d).inode.size = SzZero
    /\ bwfs_resolve(path, d).inode.block_count = 0

\* C36: every byte of a file inside [0, size) that no write covered reads as zero:
\* after the first write to a new file, every other byte a read returns is zero,
\* whatever the blocks of the file held for their previous owner
C36_NoStaleData ==
    [][(last'.op = "write" /\ last'.rc = "OK" /\ NeverWritten(last'.path[1], disk))
          => ReadsZeroBut(last'.path[1], last'.path[2], disk')]_vars

FileKept(path, d1, d2) ==
    /\ bwfs_resolve(path, d2).rc = BWFS_OK
    /\ bwfs_resolve(path, d2).inode = bwfs_resolve(path, d1).inode
    /\ \A k \in 1..Min(bwfs_resolve(path, d1).inode.block_count, BWFS_DIRECT_BLOCKS) :
          CanRead(d1, bwfs_resolve(path, d1).inode.blocks[k]) =>
              d2[bwfs_resolve(path, d1).inode.blocks[k]]
                  = d1[bwfs_resolve(path, d1).inode.blocks[k]]

\* the parent of path resolves to a regular file
ParentIsFile(path, d) ==
    /\ Len(path) > 1
    /\ bwfs_resolve(ParentOf(path), d).rc = BWFS_OK
    /\ ~IsDir(bwfs_resolve(ParentOf(path), d).inode)

\* C38: a create whose parent path resolves to a regular file fails and leaves that
\* file as it was: size, block_count, blocks[] and the content of its data blocks
C38_CreateNeedsDirectory ==
    [][(last'.op = "create" /\ last'.rc # "abort" /\ ParentIsFile(last'.path, disk))
          => /\ last'.rc # "OK"
             /\ FileKept(ParentOf(last'.path), disk, disk')]_vars

(***************************************************************************)
(* The bridge serving two requests at once.  mount_bwfs hands argv to      *)
(* fuse_main without -s (src/cli/mount_bwfs.c), so op_create and op_mkdir  *)
(* run on request threads that share g_bm and the image and take no lock.  *)
(* A thread moves from one block read or write to the next; what a handler *)
(* does in memory between two of them belongs to the step that ends in the *)
(* block access.                                                           *)
(***************************************************************************)
\* a handler entered with its path split into the parent "/" and name
Thread(name, is_dir) ==
    [pc |-> "resolve", name |-> name, is_dir |-> is_dir, pdir |-> NoInode, ino |-> 0,
     entries |-> ZeroBlock, rc |-> "none"]

\* the handler returns rc
Returned(t, rc) == [th[t] EXCEPT !.pc = "done", !.rc = rc]

\* images the requests arrive on: the formatted one, whose root has no data block,
\* and one whose root directory holds the file e
WithEntry(c) == bwfs_dir_add(c.bm, FALSE, RootInode, c.disk, "e", c.ret)
ConcImages ==
    {[bm |-> FormattedBitmap, disk |-> FormattedDisk],
     [bm |-> WithEntry(bwfs_create_inode(FormattedBitmap, FALSE, FormattedDisk)).bm,
      disk |-> WithEntry(bwfs_create_inode(FormattedBitmap, FALSE, FormattedDisk)).disk]}

ConcInit ==
    /\ \E im \in ConcImages : disk = im.disk /\ g_bm = im.bm
    /\ \E n1 \in Names, n2 \in Names, d1 \in BOOLEAN, d2 \in BOOLEAN :
          th = <<Thread(n1, d1), Thread(n2, d2)>>
    /\ g_sb = [total_blocks |-> TotalBlocks, root_inode |-> 2]
    /\ alive = TRUE
    /\ last = NoOp
    /\ nops = 0
    /\ abm = FormattedBitmap
    /\ acall = NoCall
    /\ mk = NoFormat
    /\ ck = NoCheck /\ fw = NoWalk /\ io = NoBlockFile

\* thread t takes a step that leaves its record rec, the bitmap bm and the image d
ThreadStep(t, rec, bm, d) ==
    /\ th' = [th EXCEPT ![t] = rec]
    /\ g_bm' = bm
    /\ disk' = d
    /\ UNCHANGED <<g_sb, alive, last, nops, abm, acall, mk, ck, fw, io>>

\* bwfs_resolve("/", &pdir): bwfs_read_inode(g_sb.root_inode); op_mkdir's test of the
\* directory flag passes on the root
ThreadResolve ==
    \E t \in DOMAIN th :
        /\ alive
        /\ th[t].pc = "resolve"
        /\ ThreadStep(t, IF CanRead(disk, g_sb.root_inode)
                         THEN [th[t] EXCEPT !.pc = "inode",
                                            !.pdir = InodeOf(disk[g_sb.root_inode])]
                         ELSE Returned(t, "ENOENT"),
                      g_bm, disk)

\* bwfs_create_inode up to bwfs_write_inode, after bwfs_alloc_blocks returned a
ThreadInodeAt(t, a) ==
    IF a.ret = UINT32_MAX THEN ThreadStep(t, Returned(t, "ENOSPC"), g_bm, disk)
    ELSE ThreadStep(t, [th[t] EXCEPT !.pc = "bitmap", !.ino = a.ret], a.bm,
                    bwfs_write_inode(NewInode(a.ret, th[t].is_dir), disk))

ThreadInode ==
    \E t \in DOMAIN th :
        /\ alive
        /\ th[t].pc = "inode"
        /\ ThreadInodeAt(t, bwfs_alloc_blocks(g_bm, 1))

\* bwfs_create_inode: bwfs_write_bitmap(bm, fs_dir), then bwfs_dir_add is entered
ThreadBitmap ==
    \E t \in DOMAIN th :
        /\ alive
        /\ th[t].pc = "bitmap"
        /\ ThreadStep(t, [th[t] EXCEPT !.pc = IF th[t].pdir.block_count = 0
                                              THEN "first" ELSE "load"],
                      g_bm, bwfs_write_bitmap(g_bm, disk))

\* bwfs_dir_add step 1 up to the write of the zeroed block, after bwfs_alloc_blocks
\* returned a
ThreadFirstAt(t, a) ==
    IF a.ret = UINT32_MAX THEN ThreadStep(t, Returned(t, "EIO"), g_bm, disk)
    ELSE ThreadStep(t, [th[t] EXCEPT !.pc = "first_bitmap",
                                     !.pdir = [@ EXCEPT !.blocks[1] = a.ret,
                                                        !.block_count = 1,
                                                        !.size = SzZero]],
                    a.bm, WriteBlock(disk, a.ret, ZeroBlock))

ThreadFirst ==
    \E t \in DOMAIN th :
        /\ alive
        /\ th[t].pc = "first"
        /\ ThreadFirstAt(t, bwfs_alloc_blocks(g_bm, 1))

\* bwfs_dir_add step 1: bwfs_write_bitmap(bm, fs_dir)
ThreadFirstBitmap ==
    \E t \in DOMAIN th :
        /\ alive
        /\ th[t].pc = "first_bitmap"
        /\ ThreadStep(t, [th[t] EXCEPT !.pc = "first_inode"], g_bm,
                      bwfs_write_bitmap(g_bm, disk))

\* bwfs_dir_add step 1: bwfs_write_inode(dir_inode, fs_dir)
ThreadFirstInode ==
    \E t \in DOMAIN th :
        /\ alive
        /\ th[t].pc = "first_inode"
        /\ ThreadStep(t, [th[t] EXCEPT !.pc = "load"], g_bm,
                      bwfs_write_inode(th[t].pdir, disk))

\* bwfs_dir_add step 2: load_entries reads the directory block into entries
ThreadLoad ==
    \E t \in DOMAIN th :
        /\ alive
        /\ th[t].pc = "load"
        /\ ThreadStep(t, IF CanRead(disk, th[t].pdir.blocks[1])
                         THEN [th[t] EXCEPT !.pc = "store",
                                            !.entries = disk[th[t].pdir.blocks[1]]]
                         ELSE Returned(t, "EIO"),
                      g_bm, disk)

\* bwfs_dir_add steps 3 to 5 up to store_entries, the searches having ended at match
\* and free_idx
ThreadStoreAt(t, match, free_idx) ==
    IF match # -1 \/ free_idx = -1 THEN ThreadStep(t, Returned(t, "EIO"), g_bm, disk)
    ELSE ThreadStep(t, [th[t] EXCEPT !.pc = "parent",
                                     !.pdir.size = SizePlus(@, DirEntrySize)],
                    g_bm,
                    WriteBlock(disk, th[t].pdir.blocks[1],
                               SetSlot(th[t].entries, free_idx, th[t].ino, th[t].name)))

ThreadStore ==
    \E t \in DOMAIN th :
        /\ alive
        /\ th[t].pc = "store"
        /\ ThreadStoreAt(t, MatchIdx(th[t].entries, th[t].name), FreeIdx(th[t].entries))

\* bwfs_dir_add: bwfs_write_inode(dir_inode, fs_dir); the handler returns 0
ThreadParent ==
    \E t \in DOMAIN th :
        /\ alive
        /\ th[t].pc = "parent"
        /\ ThreadStep(t, Returned(t, "OK"), g_bm, bwfs_write_inode(th[t].pdir, disk))

\* the free(entries) between store_entries and bwfs_write_inode ends the process
\* after the overrun of load_entries
ThreadAbort ==
    /\ alive
    /\ \E t \in DOMAIN th : th[t].pc = "parent"
    /\ alive' = FALSE
    /\ UNCHANGED <<disk, g_sb, g_bm, last, nops, abm, acall, mk, ck, fw, io, th>>

ConcNext ==
    \/ ThreadResolve \/ ThreadInode \/ ThreadBitmap
    \/ ThreadFirst \/ ThreadFirstBitmap \/ ThreadFirstInode
    \/ ThreadLoad \/ ThreadStore \/ ThreadParent
    \/ ThreadAbort

ConcSpec == ConcInit /\ [][ConcNext]_vars

\* both handlers have returned 0
BothSucceeded ==
    /\ alive
    /\ th # NoThreads
    /\ \A t \in DOMAIN th : th[t].pc = "done" /\ th[t].rc = "OK"

\* C39: when two create or mkdir requests on the same parent directory, served on
\* two threads that interleave between block reads and writes, have both returned
\* success, each name resolves to the inode its request made and every block
\* marked allocated is an inode or a data block reachable from the root
C39_NoLostUpdate ==
    BothSucceeded =>
        /\ \A t \in DOMAIN th :
              bwfs_dir_lookup(InodeOf(disk[g_sb.root_inode]), disk, th[t].name) = th[t].ino
        /\ \A b \in 3..(g_sb.total_blocks - 1) :
              (BitSet(g_bm, b) \/ BitSet(PersistedBitmap(disk), b)) => b \in LiveBlocks(disk)

=============================================================================
